---------------------------- MODULE Spec2Model ----------------------------
(***************************************************************************)
(* A model of the bookkeeping core of se_tally: the SQLite record store    *)
(* (data_storage.py), the Record Manager facade (record_manager.py) and    *)
(* the Statistics Engine (statistics_engine.py).                           *)
(*                                                                         *)
(* TEXT values are sequences of ASCII codes, so that SQLite's byte-wise    *)
(* comparison of the persisted date column and its LIKE operator are       *)
(* computed, not assumed.  A timestamp is a record of the seven datetime   *)
(* fields.  Amounts are integers (whole currency units): the REAL column   *)
(* stores a Python float unchanged, and integer arithmetic is exact where  *)
(* float addition is not.                                                  *)
(***************************************************************************)
EXTENDS Integers, Sequences, FiniteSets, TLC

\* ------------------------------------------------------------------ bounds

\* The number of rows the records table is allowed to receive (AUTOINCREMENT
\* is unbounded in the program).
MaxId == 2

\* The largest count passed to get_trend_data.
MaxCount == 2

\* ------------------------------------------------------------- option values

None == {}

Some(x) == {x}

IsSome(o) == o # {}

The(o) == CHOOSE x \in o : TRUE

\* ------------------------------------------------------------ integer helpers

Min(a, b) == IF a <= b THEN a ELSE b

\* Lexicographic order of two sequences of integers; a proper prefix is
\* smaller (memcmp followed by the length comparison).
LexLess(a, b) ==
    \E i \in 1..(Min(Len(a), Len(b)) + 1) :
        /\ \A j \in 1..(i - 1) : a[j] = b[j]
        /\ \/ i > Len(a) /\ i <= Len(b)
           \/ i <= Len(a) /\ i <= Len(b) /\ a[i] < b[i]

LexLeq(a, b) == a = b \/ LexLess(a, b)

\* ------------------------------------------------------------------ calendar

IsLeap(y) == (y % 4 = 0) /\ ((y % 100 # 0) \/ (y % 400 = 0))

DaysInMonth(y, m) ==
    IF m = 2 THEN (IF IsLeap(y) THEN 29 ELSE 28)
    ELSE IF m \in {4, 6, 9, 11} THEN 30 ELSE 31

DaysBeforeYear(y) ==
    (y - 1) * 365 + ((y - 1) \div 4) - ((y - 1) \div 100) + ((y - 1) \div 400)

RECURSIVE DaysBeforeMonth(_, _)
DaysBeforeMonth(y, m) ==
    IF m = 1 THEN 0 ELSE DaysBeforeMonth(y, m - 1) + DaysInMonth(y, m - 1)

\* date.toordinal()
Ymd2Ord(y, m, d) == DaysBeforeYear(y) + DaysBeforeMonth(y, m) + d

\* date.fromordinal()
Ord2Ymd(n) ==
    LET y == CHOOSE yy \in (n \div 366)..(n \div 365 + 1) :
                 /\ yy >= 1
                 /\ DaysBeforeYear(yy) < n
                 /\ n <= DaysBeforeYear(yy + 1)
        r == n - DaysBeforeYear(y)
        m == CHOOSE mm \in 1..12 :
                 /\ DaysBeforeMonth(y, mm) < r
                 /\ r <= DaysBeforeMonth(y, mm) + DaysInMonth(y, mm)
    IN  <<y, m, r - DaysBeforeMonth(y, m)>>

\* datetime(year, month, day, hour, minute, second, microsecond)
DateTime(y, m, d, hh, mi, s, us) ==
    [year |-> y, month |-> m, day |-> d, hour |-> hh, minute |-> mi,
     second |-> s, microsecond |-> us]

\* datetime.weekday(): Monday is 0.
Weekday(t) == (Ymd2Ord(t.year, t.month, t.day) + 6) % 7

\* t + timedelta(days = days, seconds = secs); the microsecond is kept.
TimedeltaAdd(t, days, secs) ==
    LET sod  == t.hour * 3600 + t.minute * 60 + t.second + secs
        carry == IF sod >= 0 THEN sod \div 86400 ELSE -((86399 - sod) \div 86400)
        s2   == sod - carry * 86400
        ymd  == Ord2Ymd(Ymd2Ord(t.year, t.month, t.day) + days + carry)
    IN  DateTime(ymd[1], ymd[2], ymd[3], s2 \div 3600, (s2 % 3600) \div 60,
                 s2 % 60, t.microsecond)

TsTuple(t) ==
    <<t.year, t.month, t.day, t.hour, t.minute, t.second, t.microsecond>>

\* datetime comparison a <= b
TsLeq(a, b) == LexLeq(TsTuple(a), TsTuple(b))

\* ---------------------------------------------------------- timestamps as text

IsDigit(c) == c >= 48 /\ c <= 57

RECURSIVE Digits(_)
\* The decimal digits of n >= 0, without padding.
Digits(n) == IF n < 10 THEN <<48 + n>> ELSE Digits(n \div 10) \o <<48 + (n % 10)>>

RECURSIVE Pad(_, _)
\* n written with at least w digits, zero-padded on the left.
Pad(n, w) ==
    LET d == Digits(n) IN
    IF Len(d) >= w THEN d ELSE <<48>> \o Pad(n, w - 1)

\* The serialisation without the fraction of a second.
StrftimeWholeSeconds(t) ==
    Digits(t.year) \o <<45>> \o Pad(t.month, 2) \o <<45>> \o Pad(t.day, 2)
      \o <<32>> \o Pad(t.hour, 2) \o <<58>> \o Pad(t.minute, 2) \o <<58>>
      \o Pad(t.second, 2)

\* date.strftime("%Y-%m-%d %H:%M:%S.%f"): glibc's %Y does not pad the year.
StrftimeMicro(t) ==
    Digits(t.year) \o <<45>> \o Pad(t.month, 2) \o <<45>> \o Pad(t.day, 2)
      \o <<32>> \o Pad(t.hour, 2) \o <<58>> \o Pad(t.minute, 2) \o <<58>>
      \o Pad(t.second, 2) \o <<46>> \o Pad(t.microsecond, 6)

\* date.strftime("%Y-%m-%d %H:%M:%S")
StrftimeSeconds(t) ==
    Digits(t.year) \o <<45>> \o Pad(t.month, 2) \o <<45>> \o Pad(t.day, 2)
      \o <<32>> \o Pad(t.hour, 2) \o <<58>> \o Pad(t.minute, 2) \o <<58>>
      \o Pad(t.second, 2)

RECURSIVE NumVal(_)
\* int() of a non-empty sequence of digits.
NumVal(d) ==
    IF Len(d) = 1 THEN d[1] - 48
    ELSE NumVal(SubSeq(d, 1, Len(d) - 1)) * 10 + (d[Len(d)] - 48)

AllDigits(s, p, k) ==
    /\ p + k - 1 <= Len(s)
    /\ \A i \in p..(p + k - 1) : IsDigit(s[i])

\* The matches at position p of a one- or two-digit directive whose value
\* lies in lo..hi: the pairs <<value, next position>>.  strptime's day
\* directive also takes a space followed by a digit.
FieldAt(s, p, lo, hi, spaced) ==
    { <<NumVal(SubSeq(s, p, p + k - 1)), p + k>> :
        k \in { kk \in 1..2 :
                  /\ AllDigits(s, p, kk)
                  /\ NumVal(SubSeq(s, p, p + kk - 1)) \in lo..hi } }
    \cup
    IF spaced /\ p + 1 <= Len(s) /\ s[p] = 32 /\ IsDigit(s[p + 1])
              /\ s[p + 1] # 48
    THEN { <<s[p + 1] - 48, p + 2>> } ELSE {}

\* The positions after a literal character c at position p.
LitAt(s, p, c) == IF p <= Len(s) /\ s[p] = c THEN {p + 1} ELSE {}

\* The positions after one or more whitespace characters from position p.
SpacesAt(s, p) ==
    { q \in (p + 1)..(Len(s) + 1) : \A i \in p..(q - 1) : s[i] = 32 }

\* The microsecond matches of %f (one to six digits, padded on the right).
FractionAt(s, p) ==
    { <<NumVal(SubSeq(s, p, p + k - 1) \o [i \in 1..(6 - k) |-> 48]), p + k>> :
        k \in { kk \in 1..6 : AllDigits(s, p, kk) } }

ValueError == [error |-> "ValueError"]

\* The directives of a format: the four-digit year, a literal character, a
\* one- or two-digit field, a run of whitespace, the fraction.
DirYear == [kind |-> "year", c |-> 0, lo |-> 0, hi |-> 0, spaced |-> FALSE]

DirLit(c) == [kind |-> "lit", c |-> c, lo |-> 0, hi |-> 0, spaced |-> FALSE]

DirField(lo, hi, spaced) ==
    [kind |-> "field", c |-> 0, lo |-> lo, hi |-> hi, spaced |-> spaced]

DirSpace == [kind |-> "space", c |-> 0, lo |-> 0, hi |-> 0, spaced |-> FALSE]

DirFraction == [kind |-> "fraction", c |-> 0, lo |-> 0, hi |-> 0, spaced |-> FALSE]

\* "%Y-%m-%d %H:%M:%S"
FormatSeconds ==
    << DirYear, DirLit(45), DirField(1, 12, FALSE), DirLit(45),
       DirField(1, 31, TRUE), DirSpace, DirField(0, 23, FALSE), DirLit(58),
       DirField(0, 59, FALSE), DirLit(58), DirField(0, 61, FALSE) >>

\* "%Y-%m-%d %H:%M:%S.%f"
FormatMicro == FormatSeconds \o << DirLit(46), DirFraction >>

\* One directive applied to a partial match x = [v: the values read so far,
\* p: the next position]: the partial matches that extend it.
StepOne(s, x, d) ==
    CASE d.kind = "year" ->
           IF AllDigits(s, x.p, 4)
           THEN { [v |-> Append(x.v, NumVal(SubSeq(s, x.p, x.p + 3))),
                   p |-> x.p + 4] }
           ELSE {}
      [] d.kind = "lit" -> { [v |-> x.v, p |-> q] : q \in LitAt(s, x.p, d.c) }
      [] d.kind = "field" ->
           { [v |-> Append(x.v, m[1]), p |-> m[2]] :
               m \in FieldAt(s, x.p, d.lo, d.hi, d.spaced) }
      [] d.kind = "space" -> { [v |-> x.v, p |-> q] : q \in SpacesAt(s, x.p) }
      [] OTHER ->
           { [v |-> Append(x.v, m[1]), p |-> m[2]] : m \in FractionAt(s, x.p) }

RECURSIVE Match(_, _, _)
\* The partial matches of s against the directives fmt, starting from S.
Match(s, fmt, S) ==
    IF fmt = <<>> THEN S
    ELSE Match(s, Tail(fmt), UNION { StepOne(s, x, Head(fmt)) : x \in S })

\* datetime(*values): ValueError for a year 0, a day the month does not
\* have, or a second above 59.
DateTimeOf(v) ==
    IF v[1] >= 1 /\ v[3] <= DaysInMonth(v[1], v[2]) /\ v[6] <= 59
    THEN DateTime(v[1], v[2], v[3], v[4], v[5], v[6],
                  IF Len(v) = 7 THEN v[7] ELSE 0)
    ELSE ValueError

\* datetime.strptime(s, "%Y-%m-%d %H:%M:%S") and, with withFraction,
\* datetime.strptime(s, "%Y-%m-%d %H:%M:%S.%f"): the timestamp, or ValueError
\* when s does not match the whole format or names no valid datetime.
Strptime(s, withFraction) ==
    LET full == { x \in Match(s, IF withFraction THEN FormatMicro
                                 ELSE FormatSeconds,
                              { [v |-> <<>>, p |-> 1] }) : x.p = Len(s) + 1 }
    IN  IF full = {} THEN ValueError
        ELSE DateTimeOf((CHOOSE x \in full : TRUE).v)

\* ------------------------------------------------------------ column values

\* A value of the date column: TEXT, or (the column has NUMERIC affinity and
\* SQLite is dynamically typed) an INTEGER, or NULL.
TextVal(s) == [kind |-> "text", text |-> s, num |-> 0]

IntVal(n) == [kind |-> "int", text |-> <<>>, num |-> n]

NullVal == [kind |-> "null", text |-> <<>>, num |-> 0]

\* Python's truth value of a column value: None, "" and 0 are false.
Truthy(v) ==
    CASE v.kind = "null" -> FALSE
      [] v.kind = "text" -> v.text # <<>>
      [] OTHER -> v.num # 0

\* A parser that falls back to the first instant of 1970, not to the clock.
ParseOrEpoch(v, clock) ==
    IF ~Truthy(v) \/ v.kind # "text" THEN DateTime(1970, 1, 1, 0, 0, 0, 0)
    ELSE LET r == Strptime(v.text, 46 \in { v.text[i] : i \in 1..Len(v.text) })
         IN  IF r = ValueError THEN DateTime(1970, 1, 1, 0, 0, 0, 0) ELSE r

\* DataStorage._parse_datetime(date_str), with the clock reading `clock`.
\* `'.' in date_str` raises TypeError for a value that is not a string; the
\* handler catches ValueError and TypeError alike.
ParseDatetime(v, clock) ==
    IF ~Truthy(v) THEN clock
    ELSE IF v.kind # "text" THEN clock
    ELSE LET r == Strptime(v.text, 46 \in { v.text[i] : i \in 1..Len(v.text) })
         IN  IF r = ValueError THEN clock ELSE r

\* ----------------------------------------------------------------- SQL layer

\* SQLite's folding of the 26 ASCII upper-case letters, used by LIKE.
Fold(c) == IF c >= 65 /\ c <= 90 THEN c + 32 ELSE c

RECURSIVE LikeMatch(_, _)
\* text LIKE pattern: % (37) matches any run of characters, _ (95) any one
\* character, every other character itself without regard to ASCII case.
LikeMatch(p, s) ==
    IF p = <<>> THEN s = <<>>
    ELSE IF p[1] = 37
         THEN \E k \in 0..Len(s) : LikeMatch(Tail(p), SubSeq(s, k + 1, Len(s)))
    ELSE IF s = <<>> THEN FALSE
    ELSE IF p[1] = 95 THEN LikeMatch(Tail(p), Tail(s))
    ELSE Fold(p[1]) = Fold(s[1]) /\ LikeMatch(Tail(p), Tail(s))

\* The storage class of a column value in SQLite's sort order:
\* NULL < INTEGER < TEXT.
StorageClass(v) ==
    CASE v.kind = "null" -> 0
      [] v.kind = "int"  -> 1
      [] OTHER           -> 2

\* a < b in SQLite's order of values (BINARY collation for TEXT).
SqlLess(a, b) ==
    \/ StorageClass(a) < StorageClass(b)
    \/ a.kind = "int" /\ b.kind = "int" /\ a.num < b.num
    \/ a.kind = "text" /\ b.kind = "text" /\ LexLess(a.text, b.text)

\* WHERE date >= ? and WHERE date <= ?: a comparison with NULL is not true.
SqlGeq(col, param) == col.kind # "null" /\ ~SqlLess(col, param)

\* An upper bound that leaves out the value equal to the bound.
SqlBelow(col, param) == col.kind # "null" /\ SqlLess(col, param)

SqlLeq(col, param) == col.kind # "null" /\ ~SqlLess(param, col)

RECURSIVE OrderByDateDesc(_)
\* ORDER BY date DESC, as a sequence of rows.  SQL leaves the order of rows
\* with equal dates open; SQLite's sorter keeps them in rowid order.
OrderByDateDesc(S) ==
    IF S = {} THEN <<>>
    ELSE LET first == CHOOSE r \in S : \A q \in S \ {r} :
                          \/ SqlLess(q.date, r.date)
                          \/ q.date = r.date /\ r.id < q.id
         IN  <<first>> \o OrderByDateDesc(S \ {first})

\* --------------------------------------------------------------- record.py

\* Record.__init__: an omitted date becomes the clock reading.
Record(amount, category, description, recordType, date, id, clock) ==
    [id |-> id, amount |-> amount, category |-> category,
     description |-> description, type |-> recordType,
     date |-> IF IsSome(date) THEN The(date) ELSE clock]

\* ---------------------------------------------------------- data_storage.py

\* The literal persisted for a record type.
TypeToken(recordType) == IF recordType = "INCOME" THEN "income" ELSE "expense"

\* The record type read back from a persisted literal.
TokenType(token) == IF token = "income" THEN "INCOME" ELSE "EXPENSE"

\* The serialisation of a timestamp bound to a statement.
DateParam(t) == TextVal(StrftimeMicro(t))

Raised == [error |-> "raised"]

\* The Record built from a fetched row; ValueError if the date parser raised.
RowRecord(row, clock) ==
    LET d == ParseDatetime(row.date, clock) IN
    IF d = ValueError THEN ValueError
    ELSE Record(row.amount, row.category, row.description, TokenType(row.type),
                Some(d), Some(row.id), clock)

RECURSIVE RowRecords(_, _)
\* The loop over the fetched rows of get_all_records and search_records: a
\* row whose Record raises ValueError is reported and left out.
RowRecords(rowSeq, clock) ==
    IF rowSeq = <<>> THEN <<>>
    ELSE LET r == RowRecord(Head(rowSeq), clock) IN
         (IF r = ValueError THEN <<>> ELSE <<r>>) \o RowRecords(Tail(rowSeq), clock)

\* The rowid of a key without AUTOINCREMENT: above the rowids in the table.
RowIdAboveRows(rows, seq) ==
    LET used == { r.id : r \in rows } \cup {0}
    IN  (CHOOSE m \in used : \A n \in used : n <= m) + 1

\* The rowid AUTOINCREMENT assigns: above every rowid ever used.
NextRowId(rows, seq) ==
    LET used == { r.id : r \in rows } \cup {seq}
    IN  (CHOOSE m \in used : \A n \in used : n <= m) + 1

\* DataStorage.save_record: [rows, seq, ret: the new id].
SaveRecord(rows, seq, record) ==
    LET newId == NextRowId(rows, seq)
        row   == [id |-> newId, amount |-> record.amount,
                  category |-> record.category,
                  description |-> record.description,
                  type |-> TypeToken(record.type),
                  date |-> DateParam(record.date)]
    IN  [rows |-> rows \cup {row}, seq |-> newId, ret |-> newId]

\* A fetch that, finding no row, falls back to the first row of the table.
GetRecordOrFirst(rows, recordId, clock) ==
    LET found == { r \in rows : r.id = recordId }
        any   == IF found # {} THEN found
                 ELSE { r \in rows : \A q \in rows : r.id <= q.id }
    IN  IF any = {} THEN None
        ELSE Some(RowRecord(The(any), clock))

\* DataStorage.get_record: None, the Record, or Raised.
GetRecord(rows, recordId, clock) ==
    LET found == { r \in rows : r.id = recordId } IN
    IF found = {} THEN None
    ELSE LET rec == RowRecord(The(found), clock) IN
         IF rec = ValueError THEN Raised ELSE Some(rec)

\* DataStorage.get_all_records(start_date, end_date)
GetAllRecords(rows, startDate, endDate, clock) ==
    LET sel == { r \in rows :
                   /\ IsSome(startDate) => SqlGeq(r.date, DateParam(The(startDate)))
                   /\ IsSome(endDate) => SqlLeq(r.date, DateParam(The(endDate))) }
    IN  RowRecords(OrderByDateDesc(sel), clock)

\* A search that applies an amount bound when it is true in Python: given
\* and not 0.
SearchAmountsWhenTrue(rows, keyword, category, startDate, endDate, minAmount, maxAmount, recordType, clock) ==
    LET pattern == <<37>> \o The(keyword) \o <<37>>
        sel == { r \in rows :
                   /\ (IsSome(keyword) /\ The(keyword) # <<>>)
                        => \/ LikeMatch(pattern, r.description)
                           \/ LikeMatch(pattern, r.category)
                   /\ (IsSome(category) /\ The(category) # <<>>)
                        => r.category = The(category)
                   /\ IsSome(startDate) => SqlGeq(r.date, DateParam(The(startDate)))
                   /\ IsSome(endDate) => SqlLeq(r.date, DateParam(The(endDate)))
                   /\ (IsSome(minAmount) /\ The(minAmount) # 0)
                        => r.amount >= The(minAmount)
                   /\ (IsSome(maxAmount) /\ The(maxAmount) # 0)
                        => r.amount <= The(maxAmount)
                   /\ IsSome(recordType) => r.type = TypeToken(The(recordType)) }
    IN  RowRecords(OrderByDateDesc(sel), clock)

\* A search that leaves the lower amount bound out of the statement.
SearchWithoutMinAmount(rows, keyword, category, startDate, endDate, minAmount, maxAmount, recordType, clock) ==
    LET pattern == <<37>> \o The(keyword) \o <<37>>
        sel == { r \in rows :
                   /\ (IsSome(keyword) /\ The(keyword) # <<>>)
                        => \/ LikeMatch(pattern, r.description)
                           \/ LikeMatch(pattern, r.category)
                   /\ (IsSome(category) /\ The(category) # <<>>)
                        => r.category = The(category)
                   /\ IsSome(startDate) => SqlGeq(r.date, DateParam(The(startDate)))
                   /\ IsSome(endDate) => SqlLeq(r.date, DateParam(The(endDate)))
                   /\ IsSome(maxAmount) => r.amount <= The(maxAmount)
                   /\ IsSome(recordType) => r.type = TypeToken(The(recordType)) }
    IN  RowRecords(OrderByDateDesc(sel), clock)

\* DataStorage.search_records(keyword, category, start_date, end_date,
\* min_amount, max_amount, record_type).  keyword and category are applied
\* when they are true in Python (given and not empty), the amount bounds when
\* they are not None; the keyword is wrapped in % and given to LIKE as it is.
SearchRecords(rows, keyword, category, startDate, endDate, minAmount, maxAmount, recordType, clock) ==
    LET pattern == <<37>> \o The(keyword) \o <<37>>
        sel == { r \in rows :
                   /\ (IsSome(keyword) /\ The(keyword) # <<>>)
                        => \/ LikeMatch(pattern, r.description)
                           \/ LikeMatch(pattern, r.category)
                   /\ (IsSome(category) /\ The(category) # <<>>)
                        => r.category = The(category)
                   /\ IsSome(startDate) => SqlGeq(r.date, DateParam(The(startDate)))
                   /\ IsSome(endDate) => SqlLeq(r.date, DateParam(The(endDate)))
                   /\ IsSome(minAmount) => r.amount >= The(minAmount)
                   /\ IsSome(maxAmount) => r.amount <= The(maxAmount)
                   /\ IsSome(recordType) => r.type = TypeToken(The(recordType)) }
    IN  RowRecords(OrderByDateDesc(sel), clock)

\* An update whose SET list leaves the date column out.
UpdateKeepsDate(rows, record) ==
    IF record.id = None \/ The(record.id) = 0 THEN [rows |-> rows, ret |-> FALSE]
    ELSE LET hit == { r \in rows : r.id = The(record.id) }
             new == { [id |-> r.id, amount |-> record.amount,
                       category |-> record.category,
                       description |-> record.description,
                       type |-> TypeToken(record.type),
                       date |-> r.date] : r \in hit }
         IN  [rows |-> (rows \ hit) \cup new, ret |-> hit # {}]

\* An update whose statement has no WHERE clause: every row takes the fields.
UpdateEveryRow(rows, record) ==
    IF record.id = None \/ The(record.id) = 0 THEN [rows |-> rows, ret |-> FALSE]
    ELSE LET new == { [id |-> r.id, amount |-> record.amount,
                       category |-> record.category,
                       description |-> record.description,
                       type |-> TypeToken(record.type),
                       date |-> DateParam(record.date)] : r \in rows }
         IN  [rows |-> new, ret |-> rows # {}]

\* An update that inserts the record when no row has its id.
UpdateOrInsert(rows, record) ==
    IF record.id = None \/ The(record.id) = 0 THEN [rows |-> rows, ret |-> FALSE]
    ELSE LET hit == { r \in rows : r.id = The(record.id) }
             new == [id |-> The(record.id), amount |-> record.amount,
                     category |-> record.category,
                     description |-> record.description,
                     type |-> TypeToken(record.type),
                     date |-> DateParam(record.date)]
         IN  [rows |-> (rows \ hit) \cup {new}, ret |-> hit # {}]

\* DataStorage.update_record: [rows, ret].
UpdateRecord(rows, record) ==
    IF record.id = None \/ The(record.id) = 0 THEN [rows |-> rows, ret |-> FALSE]
    ELSE LET hit == { r \in rows : r.id = The(record.id) }
             new == { [id |-> r.id, amount |-> record.amount,
                       category |-> record.category,
                       description |-> record.description,
                       type |-> TypeToken(record.type),
                       date |-> DateParam(record.date)] : r \in hit }
         IN  [rows |-> (rows \ hit) \cup new, ret |-> hit # {}]

\* A delete that reports the match and is never committed.
DeleteUncommitted(rows, recordId) ==
    [rows |-> rows, ret |-> \E r \in rows : r.id = recordId]

\* DataStorage.delete_record: [rows, ret].
DeleteRecord(rows, recordId) ==
    LET hit == { r \in rows : r.id = recordId }
    IN  [rows |-> rows \ hit, ret |-> hit # {}]

\* s without its k-th element.
Without(s, k) == SubSeq(s, 1, k - 1) \o SubSeq(s, k + 1, Len(s))

\* default_categories of _init_db: (name, type), the names as the code points
\* of their characters.
DefaultCategories ==
    << <<<<34218, 36164>>, "income">>, <<<<20860, 32844>>, "income">>,
       <<<<29702, 36130>>, "income">>,
       <<<<20854, 20182, 25910, 20837>>, "income">>,
       <<<<39184, 39278>>, "expense">>, <<<<20132, 36890>>, "expense">>,
       <<<<36141, 29289>>, "expense">>, <<<<23089, 20048>>, "expense">>,
       <<<<21307, 30103>>, "expense">>, <<<<20303, 25151>>, "expense">>,
       <<<<36890, 35759>>, "expense">>,
       <<<<20854, 20182, 25903, 20986>>, "expense">> >>

\* INSERT INTO categories with the default conflict handling: a name the
\* table holds violates UNIQUE and the statement raises.
InsertOrAbort(table, name, type) ==
    IF \E k \in 1..Len(table) : table[k].name = name
    THEN [table |-> table, raised |-> TRUE]
    ELSE [table |-> Append(table, [name |-> name, type |-> type]),
          raised |-> FALSE]

\* INSERT OR IGNORE INTO categories (name, type): a name the table holds
\* violates UNIQUE and the row is skipped.
InsertOrIgnore(table, name, type) ==
    IF \E k \in 1..Len(table) : table[k].name = name
    THEN [table |-> table, raised |-> FALSE]
    ELSE [table |-> Append(table, [name |-> name, type |-> type]),
          raised |-> FALSE]

RECURSIVE SeedLoop(_, _)
\* for category, category_type in default_categories: an exception leaves
\* the loop.
SeedLoop(defaults, table) ==
    IF defaults = <<>> THEN [table |-> table, raised |-> FALSE]
    ELSE LET r == InsertOrIgnore(table, Head(defaults)[1], Head(defaults)[2])
         IN  IF r.raised THEN r ELSE SeedLoop(Tail(defaults), r.table)

\* DataStorage._init_db on the tables of the file: CREATE TABLE IF NOT
\* EXISTS keeps both tables, the defaults are inserted and committed; an
\* exception leaves before the commit. [rows, categories, raised].
InitDb(rows, categories) ==
    LET r == SeedLoop(DefaultCategories, categories)
    IN  [rows |-> rows,
         categories |-> IF r.raised THEN categories ELSE r.table,
         raised |-> r.raised]

RECURSIVE IndexScan(_)
\* SELECT name FROM categories is answered from the index of UNIQUE(name):
\* the names in the order of their bytes, which for UTF-8 is the order of
\* their code points.
IndexScan(table) ==
    IF table = <<>> THEN <<>>
    ELSE LET k == CHOOSE i \in 1..Len(table) :
                      \A j \in 1..Len(table) :
                          \/ LexLess(table[i].name, table[j].name)
                          \/ table[i].name = table[j].name /\ i <= j
         IN  <<table[k].name>> \o IndexScan(Without(table, k))

\* DataStorage.get_categories(record_type): with a type, the names of the
\* rows of that type in the order of the table.
GetCategories(categories, recordType) ==
    IF recordType = None THEN IndexScan(categories)
    ELSE LET hit == SelectSeq(categories,
                        LAMBDA c : c.type = TypeToken(The(recordType)))
         IN  [k \in 1..Len(hit) |-> hit[k].name]

\* RecordType.value: the labels of the two types, as code points.
TypeLabel(recordType) ==
    IF recordType = "INCOME" THEN <<25910, 20837>> ELSE <<25903, 20986>>

\* The header row export_to_csv writes first, as code points.
CsvHeader ==
    << <<73, 68>>, <<26085, 26399>>, <<31867, 22411>>, <<20998, 31867>>,
       <<37329, 39069>>, <<22791, 27880>> >>

\* The row written for one record.
CsvRow(record) ==
    << record.id, StrftimeSeconds(record.date), TypeLabel(record.type),
       record.category, record.amount, record.description >>

\* An export that reads the store whenever the list given is not true in
\* Python: when it is None and when it is empty.
ExportWhenFalsy(table, records, clock) ==
    LET read == IF records = None THEN TRUE ELSE The(records) = <<>>
        given == IF read THEN GetAllRecords(table, None, None, clock)
                 ELSE The(records)
    IN  [file |-> <<CsvHeader>> \o [k \in 1..Len(given) |-> CsvRow(given[k])],
         read |-> read]

\* DataStorage.export_to_csv(file_path, records): the rows given to the
\* writer, and whether get_all_records was called.
ExportToCsv(table, records, clock) ==
    LET read == records = None
        given == IF read THEN GetAllRecords(table, None, None, clock)
                 ELSE The(records)
    IN  [file |-> <<CsvHeader>> \o [k \in 1..Len(given) |-> CsvRow(given[k])],
         read |-> read]

\* -------------------------------------------------------- record_manager.py

\* RecordManager.add_record
AddRecord(rows, seq, amount, category, description, recordType, date, clock) ==
    SaveRecord(rows, seq,
               Record(amount, category, description, recordType, Some(date),
                      None, clock))

\* RecordManager.update_record: read, overwrite the fields in memory, write.
ManagerUpdateRecord(rows, recordId, amount, category, description, recordType, date, clock) ==
    LET got == GetRecord(rows, recordId, clock) IN
    IF got = None THEN [rows |-> rows, ret |-> FALSE]
    ELSE UpdateRecord(rows,
             [The(got) EXCEPT !.amount = amount, !.category = category,
                              !.description = description,
                              !.type = recordType, !.date = date])

\* Assignments that leave the amount of the fetched record as it was.
OverwrittenButAmount(record, amount, category, description, recordType, date) ==
    [record EXCEPT !.category = category, !.description = description,
                   !.type = recordType, !.date = date]

\* The assignments of RecordManager.update_record to the record it fetched.
Overwritten(record, amount, category, description, recordType, date) ==
    [record EXCEPT !.amount = amount, !.category = category,
                   !.description = description, !.type = recordType,
                   !.date = date]

\* ------------------------------------------------------ statistics_engine.py

RECURSIVE Totals(_, _, _)
\* The loop of _calculate_summary over the records, and the dictionary it
\* returns.
Totals(records, income, expense) ==
    IF records = <<>>
    THEN [total_income |-> income, total_expense |-> expense,
          balance |-> income - expense]
    ELSE IF Head(records).type = "INCOME"
         THEN Totals(Tail(records), income + Head(records).amount, expense)
         ELSE Totals(Tail(records), income, expense + Head(records).amount)

\* StatisticsEngine._calculate_summary
CalculateSummary(records) == Totals(records, 0, 0)

\* datetime(t.year, t.month, t.day)
Midnight(t) == DateTime(t.year, t.month, t.day, 0, 0, 0, 0)

\* A day that runs to the first instant of the next day.
DailyThroughNextMidnight(rows, date, clock) ==
    LET d     == IF date = None THEN clock ELSE The(date)
        start == Midnight(d)
    IN  CalculateSummary(
            GetAllRecords(rows, Some(start), Some(TimedeltaAdd(start, 1, 0)),
                          clock))

\* StatisticsEngine.get_daily_summary(date)
GetDailySummary(rows, date, clock) ==
    LET d     == IF date = None THEN clock ELSE The(date)
        start == Midnight(d)
        end   == TimedeltaAdd(TimedeltaAdd(start, 1, 0), 0, -1)
    IN  CalculateSummary(GetAllRecords(rows, Some(start), Some(end), clock))

\* A week that starts on Monday at the time of day of the date asked.
WeekFromTimeOfDay(rows, date, clock) ==
    LET d      == IF date = None THEN clock ELSE The(date)
        start  == TimedeltaAdd(d, -Weekday(d), 0)
        end    == TimedeltaAdd(TimedeltaAdd(start, 7, 0), 0, -1)
    IN  CalculateSummary(GetAllRecords(rows, Some(start), Some(end), clock))

\* StatisticsEngine.get_weekly_summary(date)
GetWeeklySummary(rows, date, clock) ==
    LET d      == IF date = None THEN clock ELSE The(date)
        monday == TimedeltaAdd(d, -Weekday(d), 0)
        start  == Midnight(monday)
        end    == TimedeltaAdd(TimedeltaAdd(start, 7, 0), 0, -1)
    IN  CalculateSummary(GetAllRecords(rows, Some(start), Some(end), clock))

\* A month whose next month is always month + 1 of the same year, December's
\* being taken as January of that year.
MonthlyWithinYear(rows, year, month, clock) ==
    LET both  == year # None /\ month # None
        y     == IF both THEN The(year) ELSE clock.year
        m     == IF both THEN The(month) ELSE clock.month
        start == DateTime(y, m, 1, 0, 0, 0, 0)
        next  == DateTime(y, (m % 12) + 1, 1, 0, 0, 0, 0)
        end   == TimedeltaAdd(next, 0, -1)
    IN  CalculateSummary(GetAllRecords(rows, Some(start), Some(end), clock))

\* StatisticsEngine.get_monthly_summary(year, month): when either argument
\* is None both are taken from the clock.
GetMonthlySummary(rows, year, month, clock) ==
    LET both  == year # None /\ month # None
        y     == IF both THEN The(year) ELSE clock.year
        m     == IF both THEN The(month) ELSE clock.month
        start == DateTime(y, m, 1, 0, 0, 0, 0)
        next  == IF m = 12 THEN DateTime(y + 1, 1, 1, 0, 0, 0, 0)
                 ELSE DateTime(y, m + 1, 1, 0, 0, 0, 0)
        end   == TimedeltaAdd(next, 0, -1)
    IN  CalculateSummary(GetAllRecords(rows, Some(start), Some(end), clock))

\* category_expenses[category] = amount: the last amount in place of the sum.
DictSet(dict, category, amount) ==
    IF \E k \in 1..Len(dict) : dict[k][1] = category
    THEN [k \in 1..Len(dict) |->
             IF dict[k][1] = category THEN <<category, amount>> ELSE dict[k]]
    ELSE Append(dict, <<category, amount>>)

\* category_expenses[category] += amount on a dictionary kept as the sequence
\* of its (category, amount) items in insertion order; a category that is
\* not in it is inserted with 0 first.
DictAdd(dict, category, amount) ==
    IF \E k \in 1..Len(dict) : dict[k][1] = category
    THEN [k \in 1..Len(dict) |->
             IF dict[k][1] = category
             THEN <<category, dict[k][2] + amount>> ELSE dict[k]]
    ELSE Append(dict, <<category, 0 + amount>>)

RECURSIVE ExpenseLoop(_, _)
\* The loop of get_category_expenses over the records.
ExpenseLoop(records, dict) ==
    IF records = <<>> THEN dict
    ELSE IF Head(records).type = "EXPENSE"
         THEN ExpenseLoop(Tail(records),
                          DictAdd(dict, Head(records).category,
                                  Head(records).amount))
         ELSE ExpenseLoop(Tail(records), dict)

\* An aggregation that takes the records of both types.
ExpensesOfBothTypes(rows, startDate, endDate, clock) ==
    LET all == GetAllRecords(rows, startDate, endDate, clock)
    IN  ExpenseLoop([k \in 1..Len(all) |-> [all[k] EXCEPT !.type = "EXPENSE"]],
                    <<>>)

\* StatisticsEngine.get_category_expenses(start_date, end_date)
GetCategoryExpenses(rows, startDate, endDate, clock) ==
    ExpenseLoop(GetAllRecords(rows, startDate, endDate, clock), <<>>)

RECURSIVE SortedByAmountDesc(_)
\* sorted(items, key=lambda x: x[1], reverse=True): the sort is stable, so
\* items with equal amounts keep their order.
SortedByAmountDesc(items) ==
    IF items = <<>> THEN <<>>
    ELSE LET k == CHOOSE i \in 1..Len(items) :
                      \A j \in 1..Len(items) :
                          \/ items[j][2] < items[i][2]
                          \/ items[j][2] = items[i][2] /\ i <= j
         IN  <<items[k]>> \o SortedByAmountDesc(Without(items, k))

RECURSIVE SortedTiesReversed(_)
\* A descending sort that puts the later of two equal amounts first.
SortedTiesReversed(items) ==
    IF items = <<>> THEN <<>>
    ELSE LET k == CHOOSE i \in 1..Len(items) :
                      \A j \in 1..Len(items) :
                          \/ items[j][2] < items[i][2]
                          \/ items[j][2] = items[i][2] /\ j <= i
         IN  <<items[k]>> \o SortedTiesReversed(Without(items, k))

\* s[:n]
SliceTo(s, n) ==
    IF n >= 0 THEN SubSeq(s, 1, Min(n, Len(s))) ELSE SubSeq(s, 1, Len(s) + n)

\* A ranking whose sort reverses the order of equal amounts.
TopTiesReversed(rows, limit, startDate, endDate, clock) ==
    SliceTo(SortedTiesReversed(
                GetCategoryExpenses(rows, startDate, endDate, clock)), limit)

\* StatisticsEngine.get_top_expenses(limit, start_date, end_date)
GetTopExpenses(rows, limit, startDate, endDate, clock) ==
    SliceTo(SortedByAmountDesc(
                GetCategoryExpenses(rows, startDate, endDate, clock)), limit)

\* strftime('%m-%d')
StrftimeMonthDay(t) == Pad(t.month, 2) \o <<45>> \o Pad(t.day, 2)

\* A rollover that takes one year for any number of months.
RolloverOneYear(year, month) ==
    IF month <= 0 THEN <<year - 1, ((month - 1) % 12) + 1>> ELSE <<year, month>>

RECURSIVE Rollover(_, _)
\* while month <= 0: month += 12; year -= 1
Rollover(year, month) ==
    IF month <= 0 THEN Rollover(year - 1, month + 12) ELSE <<year, month>>

\* The dictionary get_trend_data appends for one period.
TrendDict(periodStr, summary) ==
    [period |-> periodStr, income |-> summary.total_income,
     expense |-> summary.total_expense]

\* One pass of the loop of get_trend_data, i periods back: the entry appended.
TrendEntry(rows, period, i, clock) ==
    IF period = "day"
    THEN LET date == TimedeltaAdd(clock, -i, 0)
         IN  TrendDict(StrftimeMonthDay(date),
                       GetDailySummary(rows, Some(date), clock))
    ELSE IF period = "week"
    THEN LET weekStart == TimedeltaAdd(clock, -(Weekday(clock) + 7 * i), 0)
             endDate == TimedeltaAdd(weekStart, 6, 0)
         IN  TrendDict(StrftimeMonthDay(weekStart) \o <<126>>
                         \o StrftimeMonthDay(endDate),
                       GetWeeklySummary(rows, Some(weekStart), clock))
    ELSE LET ym == Rollover(clock.year, clock.month - i)
         IN  TrendDict(Digits(ym[1]) \o <<45>> \o Pad(ym[2], 2),
                       GetMonthlySummary(rows, Some(ym[1]), Some(ym[2]), clock))

\* A series that leaves out the periods without income and expense.
TrendWithoutEmptyPeriods(rows, period, count, clock) ==
    SelectSeq([k \in 1..count |-> TrendEntry(rows, period, count - k, clock)],
              LAMBDA e : e.income # 0 \/ e.expense # 0)

\* StatisticsEngine.get_trend_data(period, count): i runs over
\* range(count - 1, -1, -1), which is empty for count <= 0.
GetTrendData(rows, period, count, clock) ==
    [k \in 1..count |-> TrendEntry(rows, period, count - k, clock)]

\* -------------------------------------------------------------- input values

\* "food", "Pay", "a%b" and the empty string.
Food == <<102, 111, 111, 100>>

Pay == <<80, 97, 121>>

APercentB == <<97, 37, 98>>

Empty == <<>>

\* The last second of Sunday 2023-12-31, the first instant of Monday
\* 2024-01-01, and half a second before the end of that Monday.
SundayEnd == DateTime(2023, 12, 31, 23, 59, 59, 0)

MondayStart == DateTime(2024, 1, 1, 0, 0, 0, 0)

MondayLate == DateTime(2024, 1, 1, 23, 59, 59, 500000)

Dates == {SundayEnd, MondayStart, MondayLate}

Types == {"INCOME", "EXPENSE"}

\* An amount with its category and description.
Items == { [amount |-> 50, category |-> Food, description |-> APercentB],
           [amount |-> 100, category |-> Pay, description |-> Empty] }

\* The field values given to add_record.
Inputs ==
    { [amount |-> i.amount, category |-> i.category,
       description |-> i.description, type |-> t, date |-> d] :
        i \in Items, t \in Types, d \in Dates }

\* The field values given to an update: two that differ in every field.
Edits ==
    { e \in Inputs : \/ e.amount = 50 /\ e.type = "EXPENSE" /\ e.date = MondayLate
                     \/ e.amount = 100 /\ e.type = "INCOME" /\ e.date = SundayEnd }

\* The identifiers given to get, update and delete: 0, every identifier the
\* table can assign, and one it cannot.
Ids == 0..(MaxId + 1)

DateOpts == {None} \cup { Some(d) : d \in Dates }

\* The clock reading: noon of Monday 2024-01-01, a quarter of a second past.
Noon == DateTime(2024, 1, 1, 12, 0, 0, 250000)

\* --------------------------------------------------------------------- state

VARIABLES
    rows,   \* the records table: a set of rows
    seq,    \* the largest rowid the table has assigned (sqlite_sequence)
    now,    \* the reading of datetime.now()
    query,  \* the arguments of the read the caller makes
    last,   \* the last call: its name, its arguments and what it returned
    categories, \* the categories table: its rows in the order of insertion
    conns   \* the connections to the database file that are open between calls

vars == <<rows, seq, now, query, last, categories, conns>>

NoQuery == [op |-> "none"]

\* A new database file, and a caller that makes no read.
Init ==
    /\ rows = {}
    /\ seq = 0
    /\ now = Noon
    /\ query = NoQuery
    /\ last = [op |-> "init"]
    /\ categories = InitDb({}, <<>>).categories
    /\ conns = 0

\* RecordManager.add_record(amount, category, description, type, date)
Add ==
    /\ seq < MaxId
    /\ \E i \in Inputs :
         LET r == AddRecord(rows, seq, i.amount, i.category, i.description,
                            i.type, i.date, now)
         IN  /\ rows' = r.rows
             /\ seq' = r.seq
             /\ last' = [op |-> "add", arg |-> i, ret |-> r.ret]
    /\ UNCHANGED <<now, query, categories, conns>>

\* DataStorage.update_record(record), for a record with or without an id
StorageUpdate ==
    /\ \E id \in {None} \cup { Some(n) : n \in Ids }, e \in Edits :
         LET r == UpdateRecord(rows,
                      Record(e.amount, e.category, e.description, e.type,
                             Some(e.date), id, now))
         IN  /\ rows' = r.rows
             /\ last' = [op |-> "storage_update", rid |-> id, arg |-> e,
                         ret |-> r.ret]
    /\ UNCHANGED <<seq, now, query, categories, conns>>

\* RecordManager.update_record(record_id, amount, category, description,
\* type, date)
ManagerUpdate ==
    /\ \E id \in Ids, e \in Edits :
         LET r == ManagerUpdateRecord(rows, id, e.amount, e.category,
                                      e.description, e.type, e.date, now)
         IN  /\ rows' = r.rows
             /\ last' = [op |-> "update", id |-> id, arg |-> e, ret |-> r.ret]
    /\ UNCHANGED <<seq, now, query, categories, conns>>

\* RecordManager.delete_record(record_id)
Delete ==
    /\ \E id \in Ids :
         LET r == DeleteRecord(rows, id)
         IN  /\ rows' = r.rows
             /\ last' = [op |-> "delete", id |-> id, ret |-> r.ret]
    /\ UNCHANGED <<seq, now, query, categories, conns>>

Next == Add \/ StorageUpdate \/ ManagerUpdate \/ Delete

\* The record store under add, update and delete.
Spec == Init /\ [][Next]_vars

NextStore == Add \/ Delete

\* The record store under add and delete alone.
SpecStore == Init /\ [][NextStore]_vars

\* ------------------------------------------------------------------ the list

\* The bounds a caller gives to list: each one absent or a timestamp.
ListQueries ==
    { [op |-> "list", start |-> a, end |-> b] : a \in DateOpts, b \in DateOpts }

\* A new database file, and a caller that lists with one pair of bounds.
InitList ==
    /\ rows = {}
    /\ seq = 0
    /\ now = Noon
    /\ query \in ListQueries
    /\ last = [op |-> "init"]
    /\ categories = InitDb({}, <<>>).categories
    /\ conns = 0

\* RecordManager.get_all_records(start_date, end_date)
List ==
    /\ query.op = "list"
    /\ last' = [op |-> "list",
                ret |-> GetAllRecords(rows, query.start, query.end, now)]
    /\ UNCHANGED <<rows, seq, now, query, categories, conns>>

NextList == Add \/ Delete \/ List

\* The record store under add, delete and list.
SpecList == InitList /\ [][NextList]_vars

\* ---------------------------------------------------------------- the search

\* "%" and "oo"
Percent == <<37>>

Oo == <<111, 111>>

\* One amount between the two stored amounts.
Between == 60

\* The filters a caller gives to search, each one absent or given: a keyword
\* that is a LIKE wildcard or a part of "food", a category that is stored or
\* empty, date bounds at the first instant of Monday, amount bounds, a type.
SearchQueries ==
    { [op |-> "search", keyword |-> k, category |-> c, start |-> a, end |-> b,
       min |-> lo, max |-> hi, type |-> t] :
        k \in {None, Some(Percent), Some(Oo)},
        c \in {None, Some(Food), Some(Empty)},
        a \in {None, Some(MondayStart)},
        b \in {None, Some(MondayStart)},
        lo \in {None, Some(Between)},
        hi \in {None, Some(Between)},
        t \in {None, Some("INCOME")} }

\* A new database file, and a caller that searches with one set of filters.
InitSearch ==
    /\ rows = {}
    /\ seq = 0
    /\ now = Noon
    /\ query \in SearchQueries
    /\ last = [op |-> "init"]
    /\ categories = InitDb({}, <<>>).categories
    /\ conns = 0

\* RecordManager.search_records(keyword, category, start_date, end_date,
\* min_amount, max_amount, record_type)
Search ==
    /\ query.op = "search"
    /\ last' = [op |-> "search",
                ret |-> SearchRecords(rows, query.keyword, query.category,
                                      query.start, query.end, query.min,
                                      query.max, query.type, now)]
    /\ UNCHANGED <<rows, seq, now, query, categories, conns>>

NextSearch == Add \/ Search

\* The record store under add and search.
SpecSearch == InitSearch /\ [][NextSearch]_vars

\* ------------------------------------------------------------ the statistics

Periods == {"day", "week", "month"}

\* The statistics a caller asks for: the summary of a day, given or absent,
\* or a trend series of 0..MaxCount periods.
StatsQueries ==
    { [op |-> "daily", date |-> d] : d \in DateOpts }
      \cup { [op |-> "trend", period |-> p, count |-> c] :
                 p \in Periods, c \in 0..MaxCount }

\* A new database file, and a caller that asks for one statistic.
InitStats ==
    /\ rows = {}
    /\ seq = 0
    /\ now = Noon
    /\ query \in StatsQueries
    /\ last = [op |-> "init"]
    /\ categories = InitDb({}, <<>>).categories
    /\ conns = 0

\* StatisticsEngine.get_daily_summary(date)
Daily ==
    /\ query.op = "daily"
    /\ last' = [op |-> "daily", ret |-> GetDailySummary(rows, query.date, now)]
    /\ UNCHANGED <<rows, seq, now, query, categories, conns>>

\* StatisticsEngine.get_trend_data(period, count)
Trend ==
    /\ query.op = "trend"
    /\ last' = [op |-> "trend",
                ret |-> GetTrendData(rows, query.period, query.count, now)]
    /\ UNCHANGED <<rows, seq, now, query, categories, conns>>

NextStats == Add \/ Daily \/ Trend

\* The record store under add, with the statistics.
SpecStats == InitStats /\ [][NextStats]_vars

\* ------------------------------------------------- a database file found

\* "not-a-date" and "2024-01-01 00:00"
NotADate == <<110, 111, 116, 45, 97, 45, 100, 97, 116, 101>>

Truncated == SubSeq(StrftimeSeconds(MondayStart), 1, 16)

\* The values the date column of a file found at start can hold: a text
\* that is no date, a fragment of a date, the empty text, a number (the
\* column's NUMERIC affinity turns a text of digits into one), and the two
\* formats with and without the fraction of a second.
PersistedDates ==
    { TextVal(NotADate), TextVal(Truncated), TextVal(Empty), IntVal(20240101),
      DateParam(MondayLate), TextVal(StrftimeSeconds(MondayStart)) }

\* The values _parse_datetime can be given: those, and None.
ParserInputs == PersistedDates \cup {NullVal}

\* A row of a file found at start, with one date value.
PersistedRow(n, v) ==
    [id |-> n, amount |-> 50, category |-> Food, description |-> APercentB,
     type |-> "expense", date |-> v]

\* The tables of 1..MaxId rows a file found at start can hold.
PersistedTables ==
    UNION { { { PersistedRow(n, f[n]) : n \in 1..k } :
                f \in [1..k -> PersistedDates] } : k \in 1..MaxId }

\* The reads made of such a file: get of each id, list without bounds,
\* search without filters and search by the keyword "oo".
PersistedQueries ==
    { [op |-> "get", id |-> n] : n \in 1..MaxId }
      \cup { q \in ListQueries : q.start = None /\ q.end = None }
      \cup { q \in SearchQueries :
                 /\ q.keyword \in {None, Some(Oo)}
                 /\ q.category = None /\ q.start = None /\ q.end = None
                 /\ q.min = None /\ q.max = None /\ q.type = None }

\* DataStorage.__init__ on an existing file: CREATE TABLE IF NOT EXISTS
\* keeps the rows that are there.
InitPersisted ==
    /\ rows \in PersistedTables
    /\ seq = Cardinality(rows)
    /\ now = Noon
    /\ query \in PersistedQueries
    /\ last = [op |-> "init"]
    /\ categories = InitDb({}, <<>>).categories
    /\ conns = 0

\* RecordManager.get_record(record_id)
Get ==
    /\ query.op = "get"
    /\ last' = [op |-> "get", ret |-> GetRecord(rows, query.id, now)]
    /\ UNCHANGED <<rows, seq, now, query, categories, conns>>

NextPersisted == Add \/ Get \/ List \/ Search

\* A database file found at start, under add, get, list and search.
SpecPersisted == InitPersisted /\ [][NextPersisted]_vars

\* ------------------------------------------------------ the weeks and months

\* The end of Sunday 2024-01-07, half a second before Monday.
NextSundayLate == DateTime(2024, 1, 7, 23, 59, 59, 500000)

\* The summaries of a week and of a month a caller asks for: the week of a
\* date, given or absent, and each month of 2023 and 2024.
PeriodQueries ==
    { [op |-> "weekly", date |-> d] : d \in DateOpts \cup {Some(NextSundayLate)} }
      \cup { [op |-> "monthly", year |-> Some(y), month |-> Some(m)] :
                 y \in {2023, 2024}, m \in 1..12 }

\* A new database file, and a caller that asks for one of those summaries.
InitPeriods ==
    /\ rows = {}
    /\ seq = 0
    /\ now = Noon
    /\ query \in PeriodQueries
    /\ last = [op |-> "init"]
    /\ categories = InitDb({}, <<>>).categories
    /\ conns = 0

\* StatisticsEngine.get_weekly_summary(date)
Weekly ==
    /\ query.op = "weekly"
    /\ last' = [op |-> "weekly", ret |-> GetWeeklySummary(rows, query.date, now)]
    /\ UNCHANGED <<rows, seq, now, query, categories, conns>>

\* StatisticsEngine.get_monthly_summary(year, month)
Monthly ==
    /\ query.op = "monthly"
    /\ last' = [op |-> "monthly",
                ret |-> GetMonthlySummary(rows, query.year, query.month, now)]
    /\ UNCHANGED <<rows, seq, now, query, categories, conns>>

NextPeriods == Add \/ Weekly \/ Monthly

\* The record store under add, with the summaries of weeks and months.
SpecPeriods == InitPeriods /\ [][NextPeriods]_vars

\* -------------------------------------------------- the expenses by category

\* The largest limit passed to get_top_expenses.
MaxLimit == 2

\* An expense of 50 in the category "Pay": the amount of the "food" items.
ExpenseInputs ==
    { [amount |-> 50, category |-> Pay, description |-> Empty,
       type |-> "EXPENSE", date |-> d] : d \in Dates }

\* The pairs of optional date bounds given with the expenses.
ExpenseBounds ==
    { <<None, None>>, <<Some(MondayStart), None>>, <<None, Some(MondayStart)>>,
      <<Some(MondayStart), Some(MondayLate)>> }

\* The expenses a caller asks for: by category, or the top 0..MaxLimit.
ExpenseQueries ==
    { [op |-> "categories", start |-> b[1], end |-> b[2]] : b \in ExpenseBounds }
      \cup { [op |-> "top", limit |-> n, start |-> b[1], end |-> b[2]] :
                 n \in 0..MaxLimit,
                 b \in { c \in ExpenseBounds : c[2] = None } }

\* A new database file, and a caller that asks for one of those.
InitExpenses ==
    /\ rows = {}
    /\ seq = 0
    /\ now = Noon
    /\ query \in ExpenseQueries
    /\ last = [op |-> "init"]
    /\ categories = InitDb({}, <<>>).categories
    /\ conns = 0

\* RecordManager.add_record, of an expense of 50 in the category "Pay"
AddExpense ==
    /\ seq < MaxId
    /\ \E i \in ExpenseInputs :
         LET r == AddRecord(rows, seq, i.amount, i.category, i.description,
                            i.type, i.date, now)
         IN  /\ rows' = r.rows
             /\ seq' = r.seq
             /\ last' = [op |-> "add", arg |-> i, ret |-> r.ret]
    /\ UNCHANGED <<now, query, categories, conns>>

\* StatisticsEngine.get_category_expenses(start_date, end_date)
CategoryExpenses ==
    /\ query.op = "categories"
    /\ last' = [op |-> "categories",
                ret |-> GetCategoryExpenses(rows, query.start, query.end, now)]
    /\ UNCHANGED <<rows, seq, now, query, categories, conns>>

\* StatisticsEngine.get_top_expenses(limit, start_date, end_date)
TopExpenses ==
    /\ query.op = "top"
    /\ last' = [op |-> "top",
                ret |-> GetTopExpenses(rows, query.limit, query.start,
                                       query.end, now)]
    /\ UNCHANGED <<rows, seq, now, query, categories, conns>>

NextExpenses == Add \/ AddExpense \/ CategoryExpenses \/ TopExpenses

\* The record store under add, with the expenses by category.
SpecExpenses == InitExpenses /\ [][NextExpenses]_vars

\* ------------------------------------------------------------ long trends

\* month += 12: the months of a year.
MonthsPerYear == 12

\* The trend series a caller asks for: of 0..MaxCount periods, and of more
\* months than a year has.
TrendQueries ==
    { [op |-> "trend", period |-> p, count |-> c] :
         p \in Periods, c \in 0..MaxCount }
      \cup { [op |-> "trend", period |-> "month",
              count |-> MonthsPerYear + MaxCount] }

\* A new database file, and a caller that asks for one trend series.
InitTrend ==
    /\ rows = {}
    /\ seq = 0
    /\ now = Noon
    /\ query \in TrendQueries
    /\ last = [op |-> "init"]
    /\ categories = InitDb({}, <<>>).categories
    /\ conns = 0

NextTrend == Add \/ Trend

\* The record store under add, with the trend series.
SpecTrend == InitTrend /\ [][NextTrend]_vars

\* ------------------------------------------------------------ the categories

\* The types a caller gives to get_categories: none, INCOME or EXPENSE.
CategoryQueries ==
    { [op |-> "categories_of", type |-> t] :
         t \in {None} \cup { Some(x) : x \in Types } }

\* A new database file, and a caller that asks for the categories.
InitCategories ==
    /\ rows = {}
    /\ seq = 0
    /\ now = Noon
    /\ query \in CategoryQueries
    /\ last = [op |-> "init"]
    /\ categories = InitDb({}, <<>>).categories
    /\ conns = 0

\* DataStorage(db_path) on the same file again: __init__ runs _init_db.
Initialize ==
    /\ LET r == InitDb(rows, categories)
       IN  /\ rows' = r.rows
           /\ categories' = r.categories
           /\ last' = [op |-> "initialize", before |-> rows,
                       raised |-> r.raised]
    /\ UNCHANGED <<seq, now, query, conns>>

\* DataStorage.get_categories(record_type)
ListCategories ==
    /\ query.op = "categories_of"
    /\ last' = [op |-> "categories_of",
                ret |-> GetCategories(categories, query.type)]
    /\ UNCHANGED <<rows, seq, now, query, categories, conns>>

NextCategories ==
    AddExpense \/ StorageUpdate \/ Delete \/ Initialize \/ ListCategories

\* The store under save, update, delete and a new start on the same file,
\* with the categories.
SpecCategories == InitCategories /\ [][NextCategories]_vars

\* ------------------------------------------------------ the seeded records

\* "salary", "dining" and "transport"; today and yesterday at the clock's time.
ScenarioInputs ==
    << [amount |-> 100, category |-> <<115, 97, 108, 97, 114, 121>>,
        type |-> "INCOME", date |-> Noon],
       [amount |-> 50, category |-> <<100, 105, 110, 105, 110, 103>>,
        type |-> "EXPENSE", date |-> Noon],
       [amount |-> 30,
        category |-> <<116, 114, 97, 110, 115, 112, 111, 114, 116>>,
        type |-> "EXPENSE", date |-> TimedeltaAdd(Noon, -1, 0)] >>

RECURSIVE AddAll(_, _, _, _)
\* RecordManager.add_record for each of a sequence of inputs: [rows, seq, ret].
AddAll(inputs, table, counter, clock) ==
    IF inputs = <<>> THEN [rows |-> table, seq |-> counter, ret |-> counter]
    ELSE LET r == AddRecord(table, counter, Head(inputs).amount,
                            Head(inputs).category, Empty, Head(inputs).type,
                            Head(inputs).date, clock)
         IN  AddAll(Tail(inputs), r.rows, r.seq, clock)

\* The amount filters a caller gives to search over the seeded records.
ScenarioQueries ==
    { [op |-> "search", keyword |-> None, category |-> None, start |-> None,
       end |-> None, min |-> lo, max |-> hi, type |-> t] :
        lo \in {None, Some(40)},
        hi \in {None, Some(120)},
        t \in {None, Some("INCOME")} }

\* A database file with the three seeded records, and a caller that searches.
InitScenario ==
    /\ rows = AddAll(ScenarioInputs, {}, 0, Noon).rows
    /\ seq = AddAll(ScenarioInputs, {}, 0, Noon).seq
    /\ now = Noon
    /\ query \in ScenarioQueries
    /\ last = [op |-> "init"]
    /\ categories = InitDb({}, <<>>).categories
    /\ conns = 0

NextScenario == Delete \/ Search

\* The seeded records under delete and search.
SpecScenario == InitScenario /\ [][NextScenario]_vars

\* ------------------------------------------------- the parser on five formats

\* valid_date.strftime(f) for the f-th of the formats "%Y-%m-%d %H:%M:%S",
\* "%Y-%m-%d %H:%M:%S.%f", "%Y/%m/%d %H:%M:%S", "%d-%m-%Y %H:%M:%S" and
\* "%m/%d/%Y %I:%M:%S %p".
Rendered(t, f) ==
    LET hms == Pad(t.hour, 2) \o <<58>> \o Pad(t.minute, 2) \o <<58>>
                 \o Pad(t.second, 2)
        hour12 == IF t.hour % 12 = 0 THEN 12 ELSE t.hour % 12
    IN  CASE f = 1 -> StrftimeSeconds(t)
          [] f = 2 -> StrftimeMicro(t)
          [] f = 3 -> Digits(t.year) \o <<47>> \o Pad(t.month, 2) \o <<47>>
                        \o Pad(t.day, 2) \o <<32>> \o hms
          [] f = 4 -> Pad(t.day, 2) \o <<45>> \o Pad(t.month, 2) \o <<45>>
                        \o Digits(t.year) \o <<32>> \o hms
          [] OTHER -> Pad(t.month, 2) \o <<47>> \o Pad(t.day, 2) \o <<47>>
                        \o Digits(t.year) \o <<32>> \o Pad(hour12, 2) \o <<58>>
                        \o Pad(t.minute, 2) \o <<58>> \o Pad(t.second, 2)
                        \o <<32>> \o (IF t.hour < 12 THEN <<65, 77>>
                                                     ELSE <<80, 77>>)

\* Valid timestamps: the first and last day of a year, hours before and
\* after noon, with and without microseconds.
ParseTimes ==
    { DateTime(y, m, d, h, 30, 59, us) :
        y \in {2023, 2024}, m \in {1, 12}, d \in {1, 31}, h \in {0, 12, 13},
        us \in {0, 250000} }

\* A new database file, and a caller that parses one rendering of a timestamp.
InitParser ==
    /\ rows = {}
    /\ seq = 0
    /\ now = Noon
    /\ query \in { [op |-> "parse", t |-> t, format |-> f] :
                      t \in ParseTimes, f \in 1..5 }
    /\ last = [op |-> "init"]
    /\ categories = InitDb({}, <<>>).categories
    /\ conns = 0

\* DataStorage._parse_datetime(date_str)
Parse ==
    /\ query.op = "parse"
    /\ last' = [op |-> "parse",
                ret |-> ParseDatetime(TextVal(Rendered(query.t, query.format)),
                                      now)]
    /\ UNCHANGED <<rows, seq, now, query, categories, conns>>

\* The parser applied to the renderings of valid timestamps.
SpecParser == InitParser /\ [][Parse]_vars

\* ------------------------------------------------------------- the export

\* The lists a caller gives to export_to_csv: none, an empty one, and lists
\* of one and two records made by the caller, in both orders.
ExportLists ==
    LET a == Record(50, Food, APercentB, "EXPENSE", Some(MondayLate), Some(1),
                    Noon)
        b == Record(100, Pay, Empty, "INCOME", Some(SundayEnd), None, Noon)
    IN  { None, Some(<<>>), Some(<<a>>), Some(<<a, b>>), Some(<<b, a>>) }

\* A new database file, and a caller that exports.
InitExport ==
    /\ rows = {}
    /\ seq = 0
    /\ now = Noon
    /\ query \in { [op |-> "export", records |-> l] : l \in ExportLists }
    /\ last = [op |-> "init"]
    /\ categories = InitDb({}, <<>>).categories
    /\ conns = 0

\* DataStorage.export_to_csv(file_path, records)
Export ==
    /\ query.op = "export"
    /\ last' = [op |-> "export", ret |-> ExportToCsv(rows, query.records, now)]
    /\ UNCHANGED <<rows, seq, now, query, categories, conns>>

NextExport == Add \/ Export

\* The record store under add, with the export.
SpecExport == InitExport /\ [][NextExport]_vars

\* ------------------------------------------------------ amounts around zero

\* A database file with records of the amounts -5, 0 and 50, and a caller that
\* searches with amount bounds of 0, each given or absent.
InitZero ==
    /\ rows = AddAll(<< [amount |-> -5, category |-> Food, type |-> "EXPENSE",
                         date |-> SundayEnd],
                        [amount |-> 0, category |-> Food, type |-> "EXPENSE",
                         date |-> MondayStart],
                        [amount |-> 50, category |-> Pay, type |-> "INCOME",
                         date |-> MondayLate] >>, {}, 0, Noon).rows
    /\ seq = Cardinality(rows)
    /\ now = Noon
    /\ query \in { [op |-> "search", keyword |-> None, category |-> None,
                     start |-> None, end |-> None, min |-> lo, max |-> hi,
                     type |-> None] :
                      lo \in {None, Some(0)}, hi \in {None, Some(0)} }
    /\ last = [op |-> "init"]
    /\ categories = InitDb({}, <<>>).categories
    /\ conns = 0

\* Records of amounts around zero under delete and search.
SpecZero == InitZero /\ [][Delete \/ Search]_vars

\* ------------------------------------------------------------ connections

\* The most connections the model lets stay open between calls.
MaxOpen == 2

\* The categories given to add_record: a text, or None.
CategoryOpts == {Some(Pay), None}

\* A new database file with no connection open.
InitConnections ==
    /\ rows = {}
    /\ seq = 0
    /\ now = Noon
    /\ query = NoQuery
    /\ last = [op |-> "init"]
    /\ categories = InitDb({}, <<>>).categories
    /\ conns = 0

\* RecordManager.add_record with a category that may be None, and the
\* connection of save_record: connect() comes first, the INSERT of a None
\* category violates NOT NULL and raises, and conn.close() is the last
\* statement of the path on which nothing raised.
Save ==
    /\ seq < MaxId
    /\ \E c \in CategoryOpts, d \in Dates :
         IF c = None
         THEN /\ conns < MaxOpen
              /\ conns' = conns + 1
              /\ last' = [op |-> "add", raised |-> TRUE]
              /\ UNCHANGED <<rows, seq>>
         ELSE LET r == AddRecord(rows, seq, 50, The(c), Empty, "EXPENSE", d, now)
              IN  /\ rows' = r.rows
                  /\ seq' = r.seq
                  /\ last' = [op |-> "add", raised |-> FALSE]
                  /\ conns' = conns
    /\ UNCHANGED <<now, query, categories>>

\* The interpreter finalises a connection object that nothing refers to any
\* more, at a time of its choosing after the exception is dropped.
Collect ==
    /\ conns > 0
    /\ conns' = conns - 1
    /\ last' = [op |-> "collect"]
    /\ UNCHANGED <<rows, seq, now, query, categories>>

\* The store and its connections under saves that may fail, and deletes.
SpecConnections == InitConnections /\ [][Save \/ Delete \/ Collect]_vars

\* ------------------------------------------------- an update and a delete

\* No call of RecordManager.update_record is between its two storage calls.
NoCall == [op |-> "update", call |-> None]

\* A new database file, and a caller of RecordManager.update_record whose
\* call in progress, if any, is held in query.call: the id and the field
\* values it was given and the record it fetched.
InitRace ==
    /\ rows = {}
    /\ seq = 0
    /\ now = Noon
    /\ query = NoCall
    /\ last = [op |-> "init"]
    /\ categories = InitDb({}, <<>>).categories
    /\ conns = 0

\* RecordManager.update_record up to its return of False or to the end of
\* get_record: the fetch.
UpdateFetch ==
    /\ query.call = None
    /\ \E id \in Ids, e \in Edits :
         LET got == GetRecord(rows, id, now) IN
         IF got = None
         THEN /\ last' = [op |-> "update", id |-> id, arg |-> e,
                          fetched |-> None, ret |-> FALSE]
              /\ query' = query
         ELSE /\ last' = [op |-> "fetch", id |-> id, arg |-> e]
              /\ query' = [query EXCEPT
                              !.call = Some([id |-> id, arg |-> e,
                                             record |-> The(got)])]
    /\ UNCHANGED <<rows, seq, now, categories, conns>>

\* RecordManager.update_record from the assignments to the return of
\* storage.update_record.
UpdateStore ==
    /\ query.call # None
    /\ LET c == The(query.call)
           r == UpdateRecord(rows,
                    Overwritten(c.record, c.arg.amount, c.arg.category,
                                c.arg.description, c.arg.type, c.arg.date))
       IN  /\ rows' = r.rows
           /\ last' = [op |-> "update", id |-> c.id, arg |-> c.arg,
                       fetched |-> Some(c.record), ret |-> r.ret]
           /\ query' = NoCall
    /\ UNCHANGED <<seq, now, categories, conns>>

\* An update in two steps among the adds and deletes of other callers.
SpecRace == InitRace /\ [][AddExpense \/ Delete \/ UpdateFetch \/ UpdateStore]_vars

\* ------------------------------------------------------ a range of a file

\* The pairs of date bounds start <= end.
DateRanges == { <<a, b>> \in Dates \X Dates : TsLeq(a, b) }

\* The reads of a file found at start that give both date bounds: list and
\* search, the other filters of search absent.
RangeQueries ==
    { q \in ListQueries :
         IsSome(q.start) /\ IsSome(q.end) /\ TsLeq(The(q.start), The(q.end)) }
      \cup { [op |-> "search", keyword |-> None, category |-> None,
               start |-> Some(r[1]), end |-> Some(r[2]), min |-> None,
               max |-> None, type |-> None] : r \in DateRanges }

\* DataStorage.__init__ on an existing file, and a caller that reads a range
\* of dates.
InitRange ==
    /\ rows \in PersistedTables
    /\ seq = Cardinality(rows)
    /\ now = Noon
    /\ query \in RangeQueries
    /\ last = [op |-> "init"]
    /\ categories = InitDb({}, <<>>).categories
    /\ conns = 0

NextRange == Add \/ List \/ Search

\* A database file found at start, under add and the reads of a date range.
SpecRange == InitRange /\ [][NextRange]_vars

\* -------------------------------------------------------------------- claims

\* The Record a get returns for a row holding the fields f under the id n.
Stored(n, f) ==
    [id |-> Some(n), amount |-> f.amount, category |-> f.category,
     description |-> f.description, type |-> f.type, date |-> f.date]

\* list() with no bounds
ListAll(table, clock) == GetAllRecords(table, None, None, clock)

HasRow(table, n) == \E r \in table : r.id = n

\* C1: every add returns an id above 0, and a get of that id made right
\* after it returns a record with that id whose amount, category,
\* description, type and date (to the microsecond) are the saved ones.
C1_SaveGetRoundTrip ==
    last.op = "add" =>
        /\ last.ret > 0
        /\ GetRecord(rows, last.ret, now) = Some(Stored(last.ret, last.arg))

\* An add of an income dated with a fraction of a second has returned.
C1_Witness ==
    /\ last.op = "add"
    /\ last.arg.date.microsecond # 0
    /\ last.arg.type = "INCOME"

\* C3: whenever a delete returns true, a get of that id then returns absent,
\* the id is in no record of list(), and list() holds exactly one record
\* fewer than before the delete.
C3_DeleteFinality ==
    [][ (last'.op = "delete" /\ last'.ret) =>
          LET before == ListAll(rows, now)
              after  == ListAll(rows', now')
          IN  /\ GetRecord(rows', last'.id, now') = None
              /\ \A k \in 1..Len(after) : after[k].id # Some(last'.id)
              /\ Len(after) = Len(before) - 1 ]_vars

\* A delete has returned true and another row is left.
C3_Witness == last.op = "delete" /\ last.ret /\ rows # {}

\* C4: whenever the Record Manager's update returns true, a get of that id
\* then returns a record with the same id whose amount, category,
\* description, type and date are the values passed to the update.
C4_UpdateVisible ==
    (last.op = "update" /\ last.ret) =>
        GetRecord(rows, last.id, now) = Some(Stored(last.id, last.arg))

\* A Record Manager update of one of two rows has returned true.
C4_Witness == last.op = "update" /\ last.ret /\ Cardinality(rows) = 2

\* C5: for an id that has no row (never assigned, or deleted), get returns
\* absent, the storage update, the Record Manager update and delete return
\* false, none of them raises, and the table is the same after the call.
C5_NotFoundIsAValue ==
    [][ /\ \A n \in Ids :
             /\ ~HasRow(rows, n) => GetRecord(rows, n, now) = None
             /\ ~HasRow(rows', n) => GetRecord(rows', n, now') = None
        /\ (last'.op = "storage_update" /\ (last'.rid = None \/ ~HasRow(rows, The(last'.rid))))
             => (last'.ret = FALSE /\ rows' = rows)
        /\ (last'.op = "update" /\ ~HasRow(rows, last'.id))
             => (last'.ret = FALSE /\ rows' = rows)
        /\ (last'.op = "delete" /\ ~HasRow(rows, last'.id))
             => (last'.ret = FALSE /\ rows' = rows) ]_vars

\* A delete of an id that was assigned and deleted before has returned false
\* while the table holds another row.
C5_Witness ==
    /\ last.op = "delete"
    /\ ~last.ret
    /\ last.id \in 1..seq
    /\ rows # {}

\* The ids of the rows whose date lies within the given optional bounds,
\* both inclusive, by comparison of timestamps.
IdsWithin(table, start, end, clock) ==
    { r.id : r \in { q \in table :
        /\ IsSome(start) => TsLeq(The(start), RowRecord(q, clock).date)
        /\ IsSome(end) => TsLeq(RowRecord(q, clock).date, The(end)) } }

\* The sequence holds the Record of each of the given rows once, and no other.
HoldsExactly(res, table, ids, clock) ==
    /\ Len(res) = Cardinality(ids)
    /\ \A n \in ids : \E k \in 1..Len(res) : res[k].id = Some(n)
    /\ \A k \in 1..Len(res) :
         \E r \in table : r.id \in ids /\ res[k] = RowRecord(r, clock)

\* Non-increasing order of date.
DateDescending(res) ==
    \A k \in 1..(Len(res) - 1) : TsLeq(res[k + 1].date, res[k].date)

\* C6: list(start, end) returns exactly the stored records whose date is at
\* or after start (if given) and at or before end (if given), most recent
\* first; with neither bound it returns every stored record.
C6_ListBoundsAndOrder ==
    last.op = "list" =>
        /\ HoldsExactly(last.ret, rows,
                        IdsWithin(rows, query.start, query.end, now), now)
        /\ DateDescending(last.ret)
        /\ (query.start = None /\ query.end = None)
               => Len(last.ret) = Cardinality(rows)

\* A list with both bounds has returned a row dated exactly at its end bound
\* and left out a row dated after it.
C6_Witness ==
    /\ last.op = "list"
    /\ IsSome(query.start) /\ IsSome(query.end)
    /\ Cardinality(rows) = 2
    /\ Len(last.ret) = 1
    /\ last.ret[1].date = The(query.end)

\* k occurs in s as a run of consecutive characters.
IsSubstring(k, s) ==
    \E i \in 1..(Len(s) - Len(k) + 1) : SubSeq(s, i, i + Len(k) - 1) = k

\* The ids of the rows that satisfy every filter of q that is given.
IdsSatisfying(table, q, clock) ==
    { r.id : r \in { x \in table :
        LET rec == RowRecord(x, clock) IN
        /\ IsSome(q.keyword) => \/ IsSubstring(The(q.keyword), rec.category)
                                \/ IsSubstring(The(q.keyword), rec.description)
        /\ IsSome(q.category) => rec.category = The(q.category)
        /\ IsSome(q.start) => TsLeq(The(q.start), rec.date)
        /\ IsSome(q.end) => TsLeq(rec.date, The(q.end))
        /\ IsSome(q.min) => The(q.min) <= rec.amount
        /\ IsSome(q.max) => rec.amount <= The(q.max)
        /\ IsSome(q.type) => rec.type = The(q.type) } }

\* C2: for every combination of given and absent filters, search returns
\* exactly the stored records that satisfy all the given filters (keyword a
\* substring of category or description, category equal, date and amount
\* within the inclusive bounds, type equal).
C2_SearchConjunction ==
    last.op = "search" =>
        HoldsExactly(last.ret, rows, IdsSatisfying(rows, query, now), now)

\* C10: a search by a keyword alone returns exactly the stored records that
\* have the keyword as a literal substring of their category or of their
\* description, also when the keyword holds '%' or '_'.
C10_KeywordIsSubstring ==
    ( /\ last.op = "search"
      /\ IsSome(query.keyword)
      /\ query.category = None /\ query.start = None /\ query.end = None
      /\ query.min = None /\ query.max = None /\ query.type = None )
    => \A r \in rows :
         (\E k \in 1..Len(last.ret) : last.ret[k].id = Some(r.id))
           <=> \/ IsSubstring(The(query.keyword), r.category)
               \/ IsSubstring(The(query.keyword), r.description)

RECURSIVE SumAmounts(_)
\* The sum of the amounts of a set of rows.
SumAmounts(S) ==
    IF S = {} THEN 0
    ELSE LET r == CHOOSE x \in S : TRUE IN r.amount + SumAmounts(S \ {r})

\* The rows of one type dated within the day of d: from its midnight to one
\* second before the next midnight.
RowsOfDay(table, d, recordType, clock) ==
    { r \in table :
        /\ RowRecord(r, clock).type = recordType
        /\ TsLeq(DateTime(d.year, d.month, d.day, 0, 0, 0, 0),
                 RowRecord(r, clock).date)
        /\ TsLeq(RowRecord(r, clock).date,
                 DateTime(d.year, d.month, d.day, 23, 59, 59, 0)) }

\* The day a daily summary is asked for.
AskedDay == IF query.date = None THEN now ELSE The(query.date)

\* C7: the daily summary of d has as total income the sum of the amounts of
\* the INCOME records dated from midnight of d to one second before the next
\* midnight, as total expense the same sum over the EXPENSE records, and as
\* balance their difference; with no record in those bounds all three are 0.
C7_DailySummaryAdditivity ==
    last.op = "daily" =>
        LET inc == SumAmounts(RowsOfDay(rows, AskedDay, "INCOME", now))
            exp == SumAmounts(RowsOfDay(rows, AskedDay, "EXPENSE", now))
        IN  /\ last.ret.total_income = inc
            /\ last.ret.total_expense = exp
            /\ last.ret.balance = last.ret.total_income - last.ret.total_expense
            /\ (RowsOfDay(rows, AskedDay, "INCOME", now) = {}
                  /\ RowsOfDay(rows, AskedDay, "EXPENSE", now) = {})
                 => last.ret = [total_income |-> 0, total_expense |-> 0,
                                balance |-> 0]

\* A daily summary of Sunday has returned an income and no expense while an
\* expense dated at Monday's first instant is stored.
C7_Witness ==
    /\ last.op = "daily"
    /\ query.date = Some(SundayEnd)
    /\ last.ret.total_income > 0
    /\ last.ret.total_expense = 0
    /\ \E r \in rows : /\ RowRecord(r, now).date = MondayStart
                        /\ RowRecord(r, now).type = "EXPENSE"

\* The number of a timestamp's period, in whole periods: days, weeks that
\* start on Monday, or months.
PeriodIndex(period, t) ==
    CASE period = "day"  -> Ymd2Ord(t.year, t.month, t.day)
      [] period = "week" -> (Ymd2Ord(t.year, t.month, t.day) - 1) \div 7
      [] OTHER           -> t.year * 12 + t.month - 1

\* C8: a trend series of count periods has exactly count entries, for day,
\* week and month and for every store, the empty one included; a period in
\* which no record is dated is present with income 0 and expense 0.
C8_TrendLength ==
    last.op = "trend" =>
        /\ Len(last.ret) = query.count
        /\ \A k \in 1..query.count :
             (\A r \in rows :
                 PeriodIndex(query.period, RowRecord(r, now).date)
                   # PeriodIndex(query.period, now) - (query.count - k))
             => (last.ret[k].income = 0 /\ last.ret[k].expense = 0)

\* A trend series of two periods has returned a period without income and
\* expense followed by a period with an income.
C8_Witness ==
    /\ last.op = "trend"
    /\ query.count = 2
    /\ Len(last.ret) = 2
    /\ last.ret[1].income = 0 /\ last.ret[1].expense = 0
    /\ last.ret[2].income > 0

\* The fields of a timestamp are those of a date and a time of day.
ValidTimestamp(t) ==
    /\ t.year \in 1..9999 /\ t.month \in 1..12
    /\ t.day \in 1..DaysInMonth(t.year, t.month)
    /\ t.hour \in 0..23 /\ t.minute \in 0..59 /\ t.second \in 0..59
    /\ t.microsecond \in 0..999999

\* The timestamp a persisted value stands for: the one it spells in one of
\* the two formats, the clock's for every other value.
ExpectedDate(v, clock) ==
    IF \E d \in Dates : v = DateParam(d)
    THEN CHOOSE d \in Dates : v = DateParam(d)
    ELSE IF v = TextVal(StrftimeSeconds(MondayStart)) THEN MondayStart
    ELSE clock

\* The Record expected for a row.
ExpectedRecord(r, clock) ==
    [id |-> Some(r.id), amount |-> r.amount, category |-> r.category,
     description |-> r.description,
     type |-> IF r.type = "income" THEN "INCOME" ELSE "EXPENSE",
     date |-> ExpectedDate(r.date, clock)]

\* The sequence holds the expected Record of every row of the table once.
ReturnsEveryRow(res, table, clock) ==
    /\ Len(res) = Cardinality(table)
    /\ \A r \in table : \E k \in 1..Len(res) : res[k] = ExpectedRecord(r, clock)

\* C9: for every persisted date value (no date, a fragment, empty, absent,
\* a number) the parser returns a timestamp, the clock's when the value
\* spells none, and get, list and search return the row with that timestamp.
C9_ParsingNeverThrows ==
    /\ \A v \in ParserInputs :
         /\ ParseDatetime(v, now) # ValueError
         /\ ValidTimestamp(ParseDatetime(v, now))
         /\ ParseDatetime(v, now) = ExpectedDate(v, now)
    /\ last.op = "get" =>
         \A r \in rows : r.id = query.id => last.ret = Some(ExpectedRecord(r, now))
    /\ last.op = "list" => ReturnsEveryRow(last.ret, rows, now)
    /\ (last.op = "search" /\ query.keyword = None)
         => ReturnsEveryRow(last.ret, rows, now)
    /\ (last.op = "search" /\ query.keyword = Some(Oo))
         => ReturnsEveryRow(last.ret, { r \in rows : r.category = Food }, now)

\* A list has returned two rows, one whose date is no date and one whose
\* date is a number, both carrying the clock's reading.
C9_Witness ==
    /\ last.op = "list"
    /\ \E r \in rows : r.date = TextVal(NotADate)
    /\ \E r \in rows : r.date = IntVal(20240101)
    /\ Len(last.ret) = 2
    /\ last.ret[1].date = now /\ last.ret[2].date = now

\* C11: for every store, rows with an unparseable date included, and every
\* start <= end, each record that search(start, end) returns has a date d
\* with start <= d <= end.
C11_SearchDatesWithinBounds ==
    last.op = "search" =>
        \A k \in 1..Len(last.ret) :
            /\ TsLeq(The(query.start), last.ret[k].date)
            /\ TsLeq(last.ret[k].date, The(query.end))

\* The summary whose totals are the sums of the amounts of the rows of S.
SummaryOf(S, clock) ==
    LET inc == SumAmounts({ r \in S : RowRecord(r, clock).type = "INCOME" })
        exp == SumAmounts({ r \in S : RowRecord(r, clock).type = "EXPENSE" })
    IN  [total_income |-> inc, total_expense |-> exp, balance |-> inc - exp]

\* t is later than 23:59:59 of its day.
InLastSecond(t) ==
    t.hour = 23 /\ t.minute = 59 /\ t.second = 59 /\ t.microsecond > 0

\* The rows dated from Monday 00:00:00 of d's week to that Monday + 7 days
\* - 1 second, i.e. to 23:59:59 of the Sunday.
RowsOfWeek(table, d, clock) ==
    { r \in table :
        LET t == RowRecord(r, clock).date IN
        /\ PeriodIndex("week", t) = PeriodIndex("week", d)
        /\ ~(Weekday(t) = 6 /\ InLastSecond(t)) }

\* The date a weekly summary is asked for.
AskedWeekDate == IF query.date = None THEN now ELSE The(query.date)

\* C12: the weekly summary of d sums, by type, exactly the records dated
\* from Monday 00:00:00 of d's week to that Monday + 7 days - 1 second, and
\* it is the same for every date of the same Monday-to-Sunday week.
C12_WeeklySummary ==
    last.op = "weekly" =>
        /\ last.ret = SummaryOf(RowsOfWeek(rows, AskedWeekDate, now), now)
        /\ \A q \in PeriodQueries :
             (q.op = "weekly" /\ q.date # None
                /\ PeriodIndex("week", The(q.date))
                      = PeriodIndex("week", AskedWeekDate))
             => GetWeeklySummary(rows, q.date, now) = last.ret

\* A weekly summary asked for the end of Sunday 2024-01-07 has returned the
\* expense dated at the first instant of that week's Monday.
C12_Witness ==
    /\ last.op = "weekly"
    /\ query.date = Some(NextSundayLate)
    /\ last.ret.total_expense > 0
    /\ \E r \in rows : r.date = DateParam(MondayStart) /\ r.type = "expense"
    /\ \E r \in rows : r.date = DateParam(SundayEnd)

\* The rows dated from the first instant of the month to one second before
\* the first instant of the next month.
RowsOfMonth(table, y, m, clock) ==
    { r \in table :
        LET t == RowRecord(r, clock).date IN
        /\ t.year = y /\ t.month = m
        /\ ~(t.day = DaysInMonth(y, m) /\ InLastSecond(t)) }

\* C13: the monthly summary of (year, month) sums, by type, exactly the
\* records dated from the first instant of the month to the first instant of
\* the next month - 1 second, for each month 1..12, December's next month
\* being January of year + 1.
C13_MonthlySummary ==
    last.op = "monthly" =>
        last.ret = SummaryOf(RowsOfMonth(rows, The(query.year),
                                         The(query.month), now), now)

\* The monthly summary of December 2023 has returned the income dated at
\* 23:59:59 of December 31 while a row dated January 1 is stored.
C13_Witness ==
    /\ last.op = "monthly"
    /\ query.year = Some(2023) /\ query.month = Some(12)
    /\ last.ret.total_income > 0
    /\ \E r \in rows : r.date = DateParam(MondayStart)

\* The EXPENSE rows dated within the optional inclusive bounds.
ExpenseRowsWithin(table, start, end, clock) ==
    { r \in table : /\ r.id \in IdsWithin(table, start, end, clock)
                    /\ RowRecord(r, clock).type = "EXPENSE" }

\* C14: the expenses by category have as keys exactly the categories with
\* at least one EXPENSE record within the optional inclusive bounds, each
\* once, mapped to the sum of the amounts of its EXPENSE records in bounds;
\* INCOME records add nothing and a category without such a record is absent.
C14_CategoryExpenses ==
    last.op = "categories" =>
        LET exp == ExpenseRowsWithin(rows, query.start, query.end, now) IN
        /\ { last.ret[k][1] : k \in 1..Len(last.ret) }
             = { r.category : r \in exp }
        /\ \A j, k \in 1..Len(last.ret) :
             last.ret[j][1] = last.ret[k][1] => j = k
        /\ \A k \in 1..Len(last.ret) :
             last.ret[k][2]
               = SumAmounts({ r \in exp : r.category = last.ret[k][1] })

\* The expenses by category have returned one category with the sum of two
\* expenses, while an income of another category is left out by its type.
C14_Witness ==
    /\ last.op = "categories"
    /\ query.start = None /\ query.end = None
    /\ Len(last.ret) = 1
    /\ last.ret[1] = <<Food, 50>>
    /\ \E r \in rows : r.type = "income" /\ r.category = Pay

\* The position of an item in a sequence without repetitions.
IndexOf(s, x) == CHOOSE k \in 1..Len(s) : s[k] = x

\* The expenses by category over the bounds asked with the ranking.
AskedExpenses == GetCategoryExpenses(rows, query.start, query.end, now)

\* C15: for limit >= 0 the top expenses are min(limit, number of categories)
\* different items of the expenses by category, in non-increasing order of
\* amount, no item left out being larger than one taken, and items with
\* equal amounts in the order of their insertion into the aggregation.
C15_TopExpenses ==
    last.op = "top" =>
        LET items == AskedExpenses
            inRet == { last.ret[k] : k \in 1..Len(last.ret) }
            inAll == { items[k] : k \in 1..Len(items) }
        IN  /\ Len(last.ret) = Min(query.limit, Len(items))
            /\ inRet \subseteq inAll
            /\ Cardinality(inRet) = Len(last.ret)
            /\ \A k \in 1..(Len(last.ret) - 1) :
                 last.ret[k][2] >= last.ret[k + 1][2]
            /\ \A x \in inAll \ inRet : \A y \in inRet : x[2] <= y[2]
            /\ \A j, k \in 1..Len(last.ret) :
                 (j < k /\ last.ret[j][2] = last.ret[k][2])
                 => IndexOf(items, last.ret[j]) < IndexOf(items, last.ret[k])
            /\ \A x \in inAll \ inRet : \A y \in inRet :
                 x[2] = y[2] => IndexOf(items, y) < IndexOf(items, x)

\* A ranking of two has returned two categories with equal amounts.
C15_Witness ==
    /\ last.op = "top"
    /\ query.limit = 2
    /\ Len(last.ret) = 2
    /\ last.ret[1][2] = last.ret[2][2]

\* t is later than 23:59:59 of the last day of its period.
InPeriodEnd(period, t) ==
    /\ InLastSecond(t)
    /\ CASE period = "day"  -> TRUE
         [] period = "week" -> Weekday(t) = 6
         [] OTHER           -> t.day = DaysInMonth(t.year, t.month)

\* The records dated in the period of a given number, up to 23:59:59 of its
\* last day, among the records of the rows.
RecordsOfPeriod(records, period, idx) ==
    { r \in records : PeriodIndex(period, r.date) = idx
                      /\ ~InPeriodEnd(period, r.date) }

\* MM-DD of the day of a given ordinal.
MonthDayOf(ord) == Pad(Ord2Ymd(ord)[2], 2) \o <<45>> \o Pad(Ord2Ymd(ord)[3], 2)

\* The label of the period of a given number: MM-DD of a day, Monday~Sunday
\* of a week, YYYY-MM of a month.
PeriodLabel(period, idx) ==
    CASE period = "day"  -> MonthDayOf(idx)
      [] period = "week" ->
           MonthDayOf(7 * idx + 1) \o <<126>> \o MonthDayOf(7 * idx + 7)
      [] OTHER           ->
           Digits(idx \div 12) \o <<45>> \o Pad((idx % 12) + 1, 2)

\* C16: entry k (0-based, oldest first) of a trend series of count periods
\* carries the label and the sums of the period count - 1 - k whole periods
\* before the current one: MM-DD of a day, Monday~Sunday of a week, YYYY-MM
\* of a month with one year taken per 12 months, also over more than a year.
C16_TrendContent ==
    last.op = "trend" =>
        LET records == { RowRecord(r, now) : r \in rows } IN
        /\ Len(last.ret) = query.count
        /\ \A k \in 0..(query.count - 1) :
             LET idx == PeriodIndex(query.period, now) - (query.count - 1 - k)
                 hit == RecordsOfPeriod(records, query.period, idx)
             IN  last.ret[k + 1]
                   = [period  |-> PeriodLabel(query.period, idx),
                      income  |-> SumAmounts({ r \in hit : r.type = "INCOME" }),
                      expense |-> SumAmounts({ r \in hit : r.type = "EXPENSE" })]

\* A series of 14 months has returned the December two years
\* before the current year first, and an expense in the last December.
C16_Witness ==
    /\ last.op = "trend"
    /\ query.period = "month"
    /\ query.count = MonthsPerYear + MaxCount
    /\ last.ret[1].period = <<50, 48, 50, 50, 45, 49, 50>>
    /\ last.ret[query.count - 1].expense > 0
    /\ last.ret[query.count].income > 0

\* The default names of one type.
DefaultNames(type) ==
    { DefaultCategories[k][1] :
        k \in { j \in 1..Len(DefaultCategories) :
                   DefaultCategories[j][2] = type } }

\* C17: after any number of starts on the same file, with records saved
\* (also of a category that is no default), updated and deleted in between,
\* the categories are the 12 default names, each once, those of INCOME the
\* 4 income names and those of EXPENSE the 8 expense names; a new start does
\* not raise and leaves the records as they were.
C17_CategoriesSeededOnce ==
    /\ last.op = "categories_of" =>
          LET got == { last.ret[k] : k \in 1..Len(last.ret) }
              want == IF query.type = None
                      THEN DefaultNames("income") \cup DefaultNames("expense")
                      ELSE DefaultNames(TypeToken(The(query.type)))
          IN  /\ got = want
              /\ Len(last.ret) = Cardinality(want)
              /\ Len(last.ret) = IF query.type = None THEN 12
                                 ELSE IF query.type = Some("INCOME") THEN 4
                                 ELSE 8
    /\ last.op = "initialize" => (~last.raised /\ rows = last.before)
    /\ Len(categories) = 12

\* A new start has been made on a file that holds a record of a category
\* that is no default.
C17_Witness ==
    /\ last.op = "initialize"
    /\ ~last.raised
    /\ \E r \in rows :
         r.category \notin DefaultNames("income") \cup DefaultNames("expense")

\* The store holds exactly the three seeded records and the caller has
\* searched with minAmount = 40 and maxAmount = 120 and no other filter.
SeededAmountSearch ==
    /\ last.op = "search"
    /\ rows = AddAll(ScenarioInputs, {}, 0, Noon).rows
    /\ query.min = Some(40) /\ query.max = Some(120) /\ query.type = None

\* C18 as stated: over the seeded records of 100 (salary, INCOME, today),
\* 50 (dining, EXPENSE, today) and 30 (transport, EXPENSE, yesterday),
\* search(minAmount = 40, maxAmount = 120) returns only the record of 100.
C18_OnlyTheSalary ==
    SeededAmountSearch =>
        { last.ret[k].amount : k \in 1..Len(last.ret) } = {100}

\* C18, amended: that search returns the records of 100 and of 50, each
\* once, and leaves out the record of 30, which is below the lower bound.
C18_SalaryAndDining ==
    SeededAmountSearch =>
        /\ Len(last.ret) = 2
        /\ { last.ret[k].amount : k \in 1..Len(last.ret) } = {100, 50}

\* The search with both amount bounds has been made over the three seeded
\* records and has returned the record of 50.
C18_Witness ==
    /\ SeededAmountSearch
    /\ Cardinality(rows) = 3
    /\ \E k \in 1..Len(last.ret) : last.ret[k].amount = 50

\* C19: the parser applied to a valid timestamp t rendered in each of the
\* five formats returns a timestamp with the year, month, day, hour, minute
\* and second of t.
C19_FiveFormatsParse ==
    last.op = "parse" =>
        /\ last.ret.year = query.t.year
        /\ last.ret.month = query.t.month
        /\ last.ret.day = query.t.day
        /\ last.ret.hour = query.t.hour
        /\ last.ret.minute = query.t.minute
        /\ last.ret.second = query.t.second

\* The row of an export stands for a record: its id, its date to the whole
\* second in the format without fraction, the label of its type, its
\* category, its amount and its description.
RowStandsFor(row, record) ==
    /\ Len(row) = 6
    /\ row[1] = record.id
    /\ Len(row[2]) = 19
    /\ Strptime(row[2], FALSE) = [record.date EXCEPT !.microsecond = 0]
    /\ row[3] = (IF record.type = "INCOME" THEN <<25910, 20837>>
                                           ELSE <<25903, 20986>>)
    /\ row[4] = record.category
    /\ row[5] = record.amount
    /\ row[6] = record.description

\* C20: an export without a list writes the header and then one row for
\* each stored record, in the order of list() without bounds; an export of
\* a given list writes one row for each record of the list, in its order,
\* and does not read the store; each row stands for its record.
C20_ExportRows ==
    last.op = "export" =>
        LET file == last.ret.file
            given == IF query.records = None THEN ListAll(rows, now)
                     ELSE The(query.records)
        IN  /\ file[1] = CsvHeader
            /\ Len(file) = 1 + Len(given)
            /\ \A k \in 1..Len(given) : RowStandsFor(file[k + 1], given[k])
            /\ query.records = None =>
                 /\ Len(file) = 1 + Cardinality(rows)
                 /\ { file[k + 1][1] : k \in 1..Len(given) }
                      = { Some(r.id) : r \in rows }
            /\ query.records # None => ~last.ret.read

\* An export without a list has written the header and two rows, one of
\* them for a record dated half a second after 23:59:59.
C20_Witness ==
    /\ last.op = "export"
    /\ query.records = None
    /\ Len(last.ret.file) = 3
    /\ \E r \in rows : r.date = DateParam(MondayLate)

\* The rows whose persisted date is a text without the fraction of a second
\* that parses to a timestamp within the bounds asked.
WholeSecondRowsWithin ==
    { r \in rows :
        /\ r.date.kind = "text"
        /\ 46 \notin { r.date.text[i] : i \in 1..Len(r.date.text) }
        /\ Strptime(r.date.text, FALSE) # ValueError
        /\ TsLeq(The(query.start), ParseDatetime(r.date, now))
        /\ TsLeq(ParseDatetime(r.date, now), The(query.end)) }

\* C23: list(start, end) and search(start, end) return every row whose
\* persisted date has no fraction of a second and parses to a timestamp t
\* with start <= t <= end, also when t = start.
C23_WholeSecondDatesInRange ==
    last.op \in {"list", "search"} =>
        \A r \in WholeSecondRowsWithin :
            \E k \in 1..Len(last.ret) : last.ret[k].id = Some(r.id)

RECURSIVE DaysFrom(_, _, _, _)
\* The incomes and the expenses of the daily summaries of n days from day.
DaysFrom(table, day, n, clock) ==
    IF n = 0 THEN [income |-> 0, expense |-> 0]
    ELSE LET one == GetDailySummary(table, Some(day), clock)
             rest == DaysFrom(table, TimedeltaAdd(day, 1, 0), n - 1, clock)
         IN  [income |-> one.total_income + rest.income,
              expense |-> one.total_expense + rest.expense]

\* C27: the daily summaries of the seven days Monday..Sunday of d's week add
\* up to the weekly summary of d, in income and in expense: every record of
\* the week is counted in exactly one day, also one dated 23:59:59.500000.
C27_DaysPartitionWeek ==
    last.op = "weekly" =>
        LET monday == TimedeltaAdd(AskedWeekDate, -Weekday(AskedWeekDate), 0)
            days == DaysFrom(rows, monday, 7, now)
        IN  /\ days.income = last.ret.total_income
            /\ days.expense = last.ret.total_expense

\* C29: the monthly summary replaces only the argument that is omitted: with
\* the year alone it covers the current month of that year, with the month
\* alone that month of the current year.
C29_MonthlyDefaultsPerArgument ==
    last.op = "monthly" =>
        /\ GetMonthlySummary(rows, query.year, None, now)
             = SummaryOf(RowsOfMonth(rows, The(query.year), now.month, now), now)
        /\ GetMonthlySummary(rows, None, query.month, now)
             = SummaryOf(RowsOfMonth(rows, now.year, The(query.month), now), now)

\* C25: under save, update and delete no two stored rows share an id; an id
\* returned by save is above every id returned before, also when the rows
\* of the larger ids have been deleted; an id that was assigned and has no
\* row, such as one deleted with success, has no row and no get ever after.
C25_IdsUniqueNeverReused ==
    [][ /\ \A a, b \in rows' : a.id = b.id => a = b
        /\ \A r \in rows' : r.id \in 1..seq'
        /\ IF last'.op = "add"
           THEN last'.ret > seq /\ seq' = last'.ret /\ HasRow(rows', last'.ret)
           ELSE seq' = seq
        /\ \A n \in 1..seq : ~HasRow(rows, n) =>
             (~HasRow(rows', n) /\ GetRecord(rows', n, now') = None)
        /\ (last'.op = "delete" /\ last'.ret) =>
             (~HasRow(rows', last'.id) /\ GetRecord(rows', last'.id, now') = None)
      ]_vars

\* A save has returned the id 2 after the row of the id 1 was deleted.
C25_Witness ==
    /\ last.op = "add"
    /\ last.ret = 2
    /\ ~HasRow(rows, 1)

\* The rows of a table that have another id than n.
OtherRows(table, n) == { r \in table : r.id # n }

\* C26: a save adds one row and leaves every row there as it was; an update
\* that returns true changes the row of its id only, and not its id; a delete
\* that returns true removes the row of its id only; get of every other id
\* returns the same before and after.
C26_SingleRowFrame ==
    [][ /\ last'.op = "add" =>
             /\ rows \subseteq rows'
             /\ Cardinality(rows' \ rows) = 1
             /\ \A r \in rows' \ rows : r.id = last'.ret
             /\ \A j \in Ids \ {last'.ret} :
                  GetRecord(rows', j, now') = GetRecord(rows, j, now)
        /\ (last'.op = "storage_update" /\ last'.ret) =>
             /\ OtherRows(rows', The(last'.rid)) = OtherRows(rows, The(last'.rid))
             /\ Cardinality(rows') = Cardinality(rows)
             /\ HasRow(rows, The(last'.rid)) /\ HasRow(rows', The(last'.rid))
             /\ \A j \in Ids \ {The(last'.rid)} :
                  GetRecord(rows', j, now') = GetRecord(rows, j, now)
        /\ (last'.op = "delete" /\ last'.ret) =>
             /\ rows' = OtherRows(rows, last'.id)
             /\ Cardinality(rows') = Cardinality(rows) - 1
             /\ \A j \in Ids \ {last'.id} :
                  GetRecord(rows', j, now') = GetRecord(rows, j, now)
      ]_vars

\* An update of one of two rows has returned true.
C26_Witness ==
    /\ last.op = "storage_update"
    /\ last.ret
    /\ Cardinality(rows) = 2

RECURSIVE SumItems(_)
\* The sum of the amounts of a sequence of (category, amount) items.
SumItems(items) ==
    IF items = <<>> THEN 0 ELSE Head(items)[2] + SumItems(Tail(items))

\* C28: for each of the two days that can hold records, the values of the
\* expenses by category over [midnight(d), midnight(d) + 1 day - 1 second]
\* add up to the total expense of the daily summary of d (stated of every
\* store, at the unbounded call of the expenses by category); the amounts of
\* a ranking with a limit of at least the number of categories add up to the
\* values of the expenses by category over the same bounds.
C28_AggregationsAgree ==
    /\ (last.op = "categories" /\ query.start = None /\ query.end = None) =>
          \A d \in {SundayEnd, MondayStart} :
              SumItems(GetCategoryExpenses(rows, Some(Midnight(d)),
                           Some(TimedeltaAdd(Midnight(d), 1, -1)), now))
                = GetDailySummary(rows, Some(d), now).total_expense
    /\ last.op = "top" =>
          LET items == AskedExpenses
          IN  query.limit >= Len(items) => SumItems(last.ret) = SumItems(items)

\* The expenses by category have been asked while the Monday holds two
\* expenses of 50, which its daily summary counts as 100.
C28_Witness ==
    /\ last.op = "categories" /\ query.start = None /\ query.end = None
    /\ GetDailySummary(rows, Some(MondayStart), now).total_expense = 100

\* C24: an amount bound of 0 is applied: search(minAmount = 0) returns
\* exactly the records of amount >= 0, search(maxAmount = 0) exactly those
\* of amount <= 0 (none when only positive amounts are stored), and each
\* bound is applied when it is given, whatever the other.
C24_ZeroIsABound ==
    (last.op = "search" /\ query.min \in {None, Some(0)}
       /\ query.max \in {None, Some(0)}) =>
        LET want == { r \in rows :
                        /\ query.min = Some(0) => r.amount >= 0
                        /\ query.max = Some(0) => r.amount <= 0 }
        IN  /\ Len(last.ret) = Cardinality(want)
            /\ { last.ret[k].id : k \in 1..Len(last.ret) }
                 = { Some(r.id) : r \in want }

\* search(maxAmount = 0) has returned nothing from a store that holds only
\* a record of a positive amount.
C24_Witness ==
    /\ last.op = "search"
    /\ query.min = None /\ query.max = Some(0)
    /\ last.ret = <<>>
    /\ rows # {}
    /\ \A r \in rows : r.amount > 0

\* The row the statement of update_record writes for id n and the field
\* values e.
Written(n, e) ==
    [id |-> n, amount |-> e.amount, category |-> e.category,
     description |-> e.description, type |-> TypeToken(e.type),
     date |-> DateParam(e.date)]

\* C22: the Manager update first fetches the id; when the id is absent it
\* returns false and the store is unchanged, with no storage update made;
\* when the fetch succeeds nothing is written by it, and the step that
\* follows is one storage update carrying the fetched id and the new field
\* values, which ends the call.
C22_ReadBeforeWrite ==
    [][ /\ (query.call = None /\ last'.op \in {"update", "fetch"}) =>
              /\ rows' = rows
              /\ IF HasRow(rows, last'.id)
                 THEN /\ last'.op = "fetch"
                      /\ query'.call # None
                      /\ The(query'.call).id = last'.id
                      /\ The(query'.call).record.id = Some(last'.id)
                 ELSE /\ last'.op = "update"
                      /\ last'.ret = FALSE
                      /\ last'.fetched = None
                      /\ query'.call = None
        /\ (query.call # None /\ last'.op \notin {"add", "delete"}) =>
              LET c == The(query.call) IN
              /\ query'.call = None
              /\ last'.op = "update"
              /\ last'.fetched = Some(c.record)
              /\ last'.ret = HasRow(rows, c.id)
              /\ rows' = OtherRows(rows, c.id)
                           \cup (IF HasRow(rows, c.id)
                                 THEN {Written(c.id, c.arg)} ELSE {})
      ]_vars

\* The Manager update of a stored id has fetched, written the new field
\* values and returned true.
C22_Witness ==
    /\ last.op = "update"
    /\ last.fetched # None
    /\ last.ret
    /\ Written(last.id, last.arg) \in rows
    /\ The(last.fetched).amount # last.arg.amount

\* C30: when a delete of the id takes effect between the fetch and the
\* storage update of a Manager update, the update returns false and the row
\* stays absent; no step stores an id other than the stored ones and the one
\* an add returns, and an id that is absent stays absent until an add
\* returns it.
C30_UpdateNeverCreates ==
    [][ /\ (query.call # None /\ last'.op = "update"
             /\ ~HasRow(rows, The(query.call).id)) =>
              /\ last'.ret = FALSE
              /\ ~HasRow(rows', The(query.call).id)
        /\ { r.id : r \in rows' }
              \subseteq { r.id : r \in rows }
                          \cup (IF last'.op = "add" THEN {last'.ret} ELSE {})
        /\ (last'.op = "add") => ~HasRow(rows, last'.ret)
        /\ (last'.op = "delete" /\ last'.ret) => ~HasRow(rows', last'.id)
      ]_vars

\* A Manager update fetched its record, the row was deleted, and the storage
\* update returned false with the row absent.
C30_Witness ==
    /\ last.op = "update"
    /\ last.fetched # None
    /\ ~last.ret
    /\ ~HasRow(rows, last.id)

\* C21: every storage operation has released its connection by the time the
\* call ends, on the path where its statement fails too: between calls no
\* connection is open.
C21_NoConnectionLeftOpen == conns = 0

=============================================================================
